---- MODULE Spec2Model ----
(***************************************************************************)
(* Model of go.ectobit.com/act: the configuration binder (act.go) and its  *)
(* value adapters (value.go).  Texts are sequences of one-character        *)
(* strings, so that every conversion (strconv, time, net/url, strcase,     *)
(* flag) is computed character by character as the library computes it.    *)
(* Integers wider than the model checker's integers (uint, uint64, int64)  *)
(* are kept as a sign and a canonical sequence of decimal digits.          *)
(***************************************************************************)
EXTENDS Integers, Sequences, FiniteSets, TLC

(***************************************************************************)
(* Errors: the chain errors.Is walks (is) and the text of Error() (msg).   *)
(***************************************************************************)
nil == [is |-> {}, msg |-> <<>>]

NewError(sentinel, text) == [is |-> {sentinel}, msg |-> text]

\* fmt.Errorf("<prefix>%w", err): the text is prefixed, the chain is kept
Errorf(prefix, err) == [is |-> err.is, msg |-> prefix \o err.msg]

ErrInvalidConfigType == NewError("ErrInvalidConfigType", <<"i","n","v","a","l","i","d"," ","c","o","n","f","i","g"," ","t","y","p","e">>)

ErrUnsupportedType == NewError("ErrUnsupportedType", <<"t","y","p","e"," ","n","o","t"," ","s","u","p","p","o","r","t","e","d">>)

ErrHelp == NewError("ErrHelp", <<"f","l","a","g",":"," ","h","e","l","p"," ","r","e","q","u","e","s","t","e","d">>)

\* strconv.Quote, for texts that need no escaping
Quote(s) == <<"\"">> \o s \o <<"\"">>

(***************************************************************************)
(* strconv                                                                 *)
(***************************************************************************)
Digit == {"0","1","2","3","4","5","6","7","8","9"}

DigitVal == [c \in Digit |->
    CASE c = "0" -> 0 [] c = "1" -> 1 [] c = "2" -> 2 [] c = "3" -> 3 [] c = "4" -> 4
      [] c = "5" -> 5 [] c = "6" -> 6 [] c = "7" -> 7 [] c = "8" -> 8 [] c = "9" -> 9]

DigitChar == [n \in 0..9 |-> CHOOSE c \in Digit : DigitVal[c] = n]

IsDigits(s) == \A i \in 1..Len(s) : s[i] \in Digit

\* the digits of a magnitude without leading zeros
StripZeros(s) ==
    LET nz == {i \in 1..Len(s) : s[i] # "0"}
    IN  IF nz = {} THEN <<"0">>
        ELSE SubSeq(s, CHOOSE i \in nz : \A j \in nz : i <= j, Len(s))

\* the length of the longest prefix of s whose characters are all in set
SpanLen(s, set) ==
    LET stop == {i \in 1..Len(s) : s[i] \notin set}
    IN  IF stop = {} THEN Len(s) ELSE (CHOOSE i \in stop : \A j \in stop : i <= j) - 1

\* a <= b for two canonical magnitudes
MagLeq(a, b) ==
    \/ Len(a) < Len(b)
    \/ /\ Len(a) = Len(b)
       /\ \/ a = b
          \/ \E i \in 1..Len(a) :
                /\ \A j \in 1..(i - 1) : a[j] = b[j]
                /\ DigitVal[a[i]] < DigitVal[b[i]]

RECURSIVE NatToMag(_)
NatToMag(n) ==
    IF n < 10 THEN <<DigitChar[n]>>
    ELSE NatToMag(n \div 10) \o <<DigitChar[n % 10]>>

RECURSIVE OctVal(_)
OctVal(s) ==
    IF s = <<>> THEN 0
    ELSE 8 * OctVal(SubSeq(s, 1, Len(s) - 1)) + DigitVal[s[Len(s)]]

MaxUint32 == <<"4","2","9","4","9","6","7","2","9","5">>

MaxUint64 == <<"1","8","4","4","6","7","4","4","0","7","3","7","0","9","5","5","1","6","1","5">>

MaxInt64 == <<"9","2","2","3","3","7","2","0","3","6","8","5","4","7","7","5","8","0","7">>

MinInt64Mag == <<"9","2","2","3","3","7","2","0","3","6","8","5","4","7","7","5","8","0","8">>

ErrSyntax == NewError("strconv.ErrSyntax", <<"i","n","v","a","l","i","d"," ","s","y","n","t","a","x">>)

ErrRange == NewError("strconv.ErrRange", <<"v","a","l","u","e"," ","o","u","t"," ","o","f"," ","r","a","n","g","e">>)

\* strconv.NumError: "strconv.<Func>: parsing <quoted>: <err>"
NumError(fn, s, err) ==
    Errorf(<<"s","t","r","c","o","n","v",".">> \o fn \o <<":"," ","p","a","r","s","i","n","g"," ">> \o Quote(s) \o <<":"," ">>, err)

Zero == [neg |-> FALSE, mag |-> <<"0">>]

\* strconv.ParseBool
ParseBool(s) ==
    IF s \in {<<"1">>, <<"t">>, <<"T">>, <<"T","R","U","E">>, <<"t","r","u","e">>, <<"T","r","u","e">>}
    THEN [val |-> TRUE, err |-> nil]
    ELSE IF s \in {<<"0">>, <<"f">>, <<"F">>, <<"F","A","L","S","E">>, <<"f","a","l","s","e">>, <<"F","a","l","s","e">>}
    THEN [val |-> FALSE, err |-> nil]
    ELSE [val |-> FALSE, err |-> NumError(<<"P","a","r","s","e","B","o","o","l">>, s, ErrSyntax)]

\* strconv.ParseUint(s, base, bitSize) for base 10 and base 0 (prefix decides:
\* a leading "0" before more digits is octal; the letters of the 0x, 0o, 0b
\* prefixes and the underscore are read as any other non-digit)
ParseUintKind(s, base, max) ==
    IF s = <<>> \/ ~IsDigits(s) THEN "syntax"
    ELSE IF base = 0 /\ Len(s) > 1 /\ s[1] = "0"
    THEN IF \E i \in 2..Len(s) : s[i] \in {"8", "9"} THEN "syntax" ELSE "octal"
    ELSE IF MagLeq(StripZeros(s), max) THEN "decimal" ELSE "range"

ParseUint(s, base, max, fn, orig) ==
    LET result(k) ==
            CASE k = "syntax" -> [val |-> Zero, err |-> NumError(fn, orig, ErrSyntax)]
              [] k = "range" -> [val |-> [neg |-> FALSE, mag |-> max], err |-> NumError(fn, orig, ErrRange)]
              [] k = "octal" -> [val |-> [neg |-> FALSE, mag |-> NatToMag(OctVal(Tail(s)))], err |-> nil]
              [] OTHER -> [val |-> [neg |-> FALSE, mag |-> StripZeros(s)], err |-> nil]
    IN  result(ParseUintKind(s, base, max))

\* strconv.ParseInt(s, base, 64): an optional sign, then ParseUint, then the
\* cutoff 2^63 (reached only by a negative value)
ParseInt(s, base, fn) ==
    LET signed == s # <<>> /\ s[1] \in {"+", "-"}
        neg == s # <<>> /\ s[1] = "-"
        result(u) ==
            IF u.err # nil /\ "strconv.ErrSyntax" \in u.err.is
            THEN [val |-> Zero, err |-> u.err]
            ELSE IF u.err # nil \/ ~MagLeq(u.val.mag, IF neg THEN MinInt64Mag ELSE MaxInt64)
            THEN [val |-> [neg |-> neg, mag |-> IF neg THEN MinInt64Mag ELSE MaxInt64],
                  err |-> NumError(fn, s, ErrRange)]
            ELSE [val |-> [neg |-> neg /\ u.val.mag # <<"0">>, mag |-> u.val.mag], err |-> nil]
    IN  result(ParseUint(IF signed THEN Tail(s) ELSE s, base, MaxUint64, fn, s))

\* strconv.Atoi on a 64-bit platform
Atoi(s) == ParseInt(s, 10, <<"A","t","o","i">>)

\* strconv.FormatInt / strconv.FormatUint, base 10
FormatInt(n) == (IF n.neg THEN <<"-">> ELSE <<>>) \o n.mag

\* strconv.FormatBool
FormatBool(b) == IF b THEN <<"t","r","u","e">> ELSE <<"f","a","l","s","e">>

\* strconv.ParseFloat(s, 64) on plain decimals: [sign] digits [. digits].  The
\* value is the exact decimal (integer part, fraction without trailing zeros).
\* Exponents, hexadecimal floats, inf and nan need letters no text here uses.
ZeroFloat == [neg |-> FALSE, int |-> <<"0">>, frac |-> <<>>]

StripTrailingZeros(s) ==
    LET nz == {i \in 1..Len(s) : s[i] # "0"}
    IN  IF nz = {} THEN <<>>
        ELSE SubSeq(s, 1, CHOOSE i \in nz : \A j \in nz : j <= i)

ParseFloat(s) ==
    LET signed == s # <<>> /\ s[1] \in {"+", "-"}
        result(ip, fp) ==
            IF IsDigits(ip) /\ IsDigits(fp) /\ Len(ip) + Len(fp) > 0
            THEN [val |-> [neg |-> signed /\ s[1] = "-", int |-> StripZeros(ip),
                           frac |-> StripTrailingZeros(fp)], err |-> nil]
            ELSE [val |-> ZeroFloat, err |-> NumError(<<"P","a","r","s","e","F","l","o","a","t">>, s, ErrSyntax)]
        split(rest) ==
            result(SubSeq(rest, 1, SpanLen(rest, {rest[i] : i \in 1..Len(rest)} \ {"."})),
                   SubSeq(rest, SpanLen(rest, {rest[i] : i \in 1..Len(rest)} \ {"."}) + 2, Len(rest)))
    IN  split(IF signed THEN Tail(s) ELSE s)

\* strconv.FormatFloat(f, 'g', -1, 64) for magnitudes printed without exponent
FormatFloat(f) ==
    (IF f.neg THEN <<"-">> ELSE <<>>) \o f.int
        \o (IF f.frac = <<>> THEN <<>> ELSE <<".">> \o f.frac)

(***************************************************************************)
(* time.ParseDuration and Duration.String.  A duration is a number of      *)
(* milliseconds; the units of the texts used are ms, s, m and h, and no    *)
(* text used has a fractional number.                                      *)
(***************************************************************************)
RECURSIVE DecVal(_)
DecVal(s) ==
    IF s = <<>> THEN 0
    ELSE 10 * DecVal(SubSeq(s, 1, Len(s) - 1)) + DigitVal[s[Len(s)]]

UnitMs(u) ==
    CASE u = <<"m","s">> -> 1 [] u = <<"s">> -> 1000 [] u = <<"m">> -> 60000 [] u = <<"h">> -> 3600000
      [] OTHER -> 0

\* the loop of time.ParseDuration over "<digits><unit>" groups
RECURSIVE DurGroups(_)
DurGroups(s) ==
    LET group(nd, after) ==
            LET unitOf(nu) ==
                    LET scaled(unit, ms) ==
                            IF unit = <<>> THEN [kind |-> "missing unit", ms |-> 0, unit |-> <<>>]
                            ELSE IF ms = 0 THEN [kind |-> "unknown unit", ms |-> 0, unit |-> unit]
                            ELSE LET sum(rest) ==
                                         IF rest.kind # "ok" THEN rest
                                         ELSE [kind |-> "ok", ms |-> DecVal(SubSeq(s, 1, nd)) * ms + rest.ms,
                                               unit |-> <<>>]
                                 IN  sum(DurGroups(SubSeq(after, nu + 1, Len(after))))
                    IN  scaled(SubSeq(after, 1, nu), UnitMs(SubSeq(after, 1, nu)))
            IN  IF nd = 0 THEN [kind |-> "invalid", ms |-> 0, unit |-> <<>>]
                ELSE unitOf(SpanLen(after, {after[i] : i \in 1..Len(after)} \ (Digit \cup {"."})))
    IN  IF s = <<>> THEN [kind |-> "ok", ms |-> 0, unit |-> <<>>]
        ELSE group(SpanLen(s, Digit), SubSeq(s, SpanLen(s, Digit) + 1, Len(s)))

ParseDuration(s) ==
    LET signed == s # <<>> /\ s[1] \in {"+", "-"}
        fail(text) == [val |-> 0, err |-> NewError("time.ParseDuration", text \o Quote(s))]
        result(rest, g) ==
            IF rest = <<"0">> THEN [val |-> 0, err |-> nil]
            ELSE IF rest = <<>> \/ g.kind = "invalid" THEN fail(<<"t","i","m","e",":"," ","i","n","v","a","l","i","d"," ","d","u","r","a","t","i","o","n"," ">>)
            ELSE IF g.kind = "missing unit" THEN fail(<<"t","i","m","e",":"," ","m","i","s","s","i","n","g"," ","u","n","i","t"," ","i","n"," ","d","u","r","a","t","i","o","n"," ">>)
            ELSE IF g.kind = "unknown unit"
            THEN fail(<<"t","i","m","e",":"," ","u","n","k","n","o","w","n"," ","u","n","i","t"," ">> \o Quote(g.unit) \o <<" ","i","n"," ","d","u","r","a","t","i","o","n"," ">>)
            ELSE [val |-> IF s[1] = "-" THEN 0 - g.ms ELSE g.ms, err |-> nil]
    IN  result(IF signed THEN Tail(s) ELSE s, DurGroups(IF signed THEN Tail(s) ELSE s))

\* time.Duration.String
DurationString(d) ==
    LET sign == IF d < 0 THEN <<"-">> ELSE <<>>
        frac(u) == StripTrailingZeros(<<DigitChar[(u % 1000) \div 100], DigitChar[(u % 100) \div 10],
                                        DigitChar[u % 10]>>)
        seconds(secs, f) == NatToMag(secs % 60) \o (IF f = <<>> THEN <<>> ELSE <<".">> \o f) \o <<"s">>
        text(u, secs) ==
            IF u < 1000 THEN NatToMag(u) \o <<"m","s">>
            ELSE (IF secs < 3600 THEN <<>> ELSE NatToMag(secs \div 3600) \o <<"h">>)
                 \o (IF secs < 60 THEN <<>> ELSE NatToMag((secs \div 60) % 60) \o <<"m">>)
                 \o seconds(secs, frac(u))
    IN  IF d = 0 THEN <<"0","s">>
        ELSE sign \o text(IF d < 0 THEN 0 - d ELSE d, (IF d < 0 THEN 0 - d ELSE d) \div 1000)

(***************************************************************************)
(* time.Parse(time.RFC3339, s) and Time.Format(time.RFC3339).  An instant  *)
(* is its civil fields, its fraction of a second (digits without trailing  *)
(* zeros) and its zone offset in minutes.                                  *)
(***************************************************************************)
RFC3339 == <<"2","0","0","6","-","0","1","-","0","2","T","1","5",":","0","4",":","0","5","Z","0","7",":","0","0">>

Pad2(n) == <<DigitChar[n \div 10], DigitChar[n % 10]>>

DaysIn(month, year) ==
    IF month = 2
    THEN IF year % 4 = 0 /\ (year % 100 # 0 \/ year % 400 = 0) THEN 29 ELSE 28
    ELSE IF month \in {4, 6, 9, 11} THEN 30 ELSE 31

\* the zone part: "Z", or a sign, two digits, a colon and two digits
ParseZone(z) ==
    LET offset(hh, mm) ==
            IF hh < 24 /\ mm < 60
            THEN [ok |-> TRUE, off |-> (IF z[1] = "-" THEN 0 - 1 ELSE 1) * (60 * hh + mm)]
            ELSE [ok |-> FALSE, off |-> 0]
    IN  IF z = <<"Z">> THEN [ok |-> TRUE, off |-> 0]
        ELSE IF Len(z) = 6 /\ z[1] \in {"+", "-"} /\ z[4] = ":" /\ IsDigits(<<z[2], z[3], z[5], z[6]>>)
        THEN offset(DecVal(<<z[2], z[3]>>), DecVal(<<z[5], z[6]>>))
        ELSE [ok |-> FALSE, off |-> 0]

NilTime == [set |-> FALSE]

TimeParse(s) ==
    LET fail == [val |-> NilTime, err |-> NewError("time.ParseError",
                    <<"p","a","r","s","i","n","g"," ","t","i","m","e"," ">> \o Quote(s) \o <<" ","a","s"," ">> \o Quote(RFC3339))]
        shape == /\ Len(s) >= 20
                 /\ s[5] = "-" /\ s[8] = "-" /\ s[11] = "T" /\ s[14] = ":" /\ s[17] = ":"
                 /\ IsDigits(SubSeq(s, 1, 4) \o SubSeq(s, 6, 7) \o SubSeq(s, 9, 10)
                             \o SubSeq(s, 12, 13) \o SubSeq(s, 15, 16) \o SubSeq(s, 18, 19))
        civil(year, month, day, hour, min, sec, tail) ==
            LET fraction(nf) ==
                    LET zoned(frac, zone) ==
                            IF ~zone.ok THEN fail
                            ELSE [val |-> [set |-> TRUE, year |-> year, month |-> month, day |-> day,
                                           hour |-> hour, min |-> min, sec |-> sec,
                                           frac |-> StripTrailingZeros(frac), off |-> zone.off],
                                  err |-> nil]
                    IN  zoned(SubSeq(tail, 2, IF nf < 9 THEN 1 + nf ELSE 10),
                              ParseZone(IF nf > 0 THEN SubSeq(tail, nf + 2, Len(tail)) ELSE tail))
            IN  IF ~(month \in 1..12 /\ day \in 1..DaysIn(month, year) /\ hour < 24 /\ min < 60 /\ sec < 60)
                THEN fail
                ELSE fraction(IF Len(tail) >= 2 /\ tail[1] \in {".", ","} /\ tail[2] \in Digit
                              THEN SpanLen(Tail(tail), Digit) ELSE 0)
    IN  IF ~shape THEN fail
        ELSE civil(DecVal(SubSeq(s, 1, 4)), DecVal(SubSeq(s, 6, 7)), DecVal(SubSeq(s, 9, 10)),
                   DecVal(SubSeq(s, 12, 13)), DecVal(SubSeq(s, 15, 16)), DecVal(SubSeq(s, 18, 19)),
                   SubSeq(s, 20, Len(s)))

TimeFormat(t) ==
    LET a == IF t.off < 0 THEN 0 - t.off ELSE t.off
    IN  Pad2(t.year \div 100) \o Pad2(t.year % 100) \o <<"-">> \o Pad2(t.month) \o <<"-">> \o Pad2(t.day)
        \o <<"T">> \o Pad2(t.hour) \o <<":">> \o Pad2(t.min) \o <<":">> \o Pad2(t.sec)
        \o (IF t.off = 0 THEN <<"Z">>
            ELSE <<IF t.off < 0 THEN "-" ELSE "+">> \o Pad2(a \div 60) \o <<":">> \o Pad2(a % 60))

(***************************************************************************)
(* url.Parse and URL.String, for texts without query, fragment or userinfo *)
(***************************************************************************)
LowerSeq == <<"a","b","c","d","e","f","g","h","i","j","k","l","m","n","o","p","q","r","s","t","u","v","w","x","y","z">>

UpperSeq == <<"A","B","C","D","E","F","G","H","I","J","K","L","M","N","O","P","Q","R","S","T","U","V","W","X","Y","Z">>

Lower == {LowerSeq[i] : i \in 1..26}

Upper == {UpperSeq[i] : i \in 1..26}

ToLowerChar(c) == IF c \in Upper THEN LowerSeq[CHOOSE i \in 1..26 : UpperSeq[i] = c] ELSE c

ToUpperChar(c) == IF c \in Lower THEN UpperSeq[CHOOSE i \in 1..26 : LowerSeq[i] = c] ELSE c

HexDigit == Digit \cup {"a", "b", "c", "d", "e", "f", "A", "B", "C", "D", "E", "F"}

HasPrefix(s, p) == Len(s) >= Len(p) /\ SubSeq(s, 1, Len(p)) = p

\* s[i] is a "%" that is not followed by two hexadecimal digits
BadEscapeAt(s, i) ==
    s[i] = "%" /\ ~(i + 2 <= Len(s) /\ s[i + 1] \in HexDigit /\ s[i + 2] \in HexDigit)

BadEscape(s) == \E i \in 1..Len(s) : BadEscapeAt(s, i)

\* the text of the first bad escape of s, as url.unescape reports it
FirstBadEscape(s) ==
    LET cut(i) == SubSeq(s, i, IF i + 2 <= Len(s) THEN i + 2 ELSE Len(s))
    IN  cut(CHOOSE i \in 1..Len(s) : BadEscapeAt(s, i) /\ \A j \in 1..(i - 1) : ~BadEscapeAt(s, j))

\* the text of s before the first "/"
BeforeSlash(s) == SubSeq(s, 1, SpanLen(s, {s[i] : i \in 1..Len(s)} \ {"/"}))

NilURL == [set |-> FALSE]

URLParse(raw) ==
    LET fail(text) == [val |-> NilURL,
                       err |-> NewError("url.Error", <<"p","a","r","s","e"," ">> \o Quote(raw) \o <<":"," ">> \o text)]
        \* url.parse after getScheme: rest is the text after the scheme
        parsed(scheme, rest) ==
            LET mk(o, h, p, omit) == [val |-> [set |-> TRUE, Scheme |-> scheme, Opaque |-> o, Host |-> h,
                                               Path |-> p, OmitHost |-> omit], err |-> nil]
                located(rooted, hasAuth, host) ==
                    LET checked(path) ==
                            IF hasAuth /\ BadEscape(host)
                            THEN fail(<<"i","n","v","a","l","i","d"," ","U","R","L"," ","e","s","c","a","p","e"," ">> \o Quote(FirstBadEscape(host)))
                            ELSE IF BadEscape(path)
                            THEN fail(<<"i","n","v","a","l","i","d"," ","U","R","L"," ","e","s","c","a","p","e"," ">> \o Quote(FirstBadEscape(path)))
                            ELSE mk(<<>>, IF hasAuth THEN host ELSE <<>>, path,
                                    ~hasAuth /\ scheme # <<>> /\ rooted)
                    IN  IF ~rooted /\ scheme # <<>> THEN mk(rest, <<>>, <<>>, FALSE)
                        ELSE IF ~rooted /\ \E i \in 1..Len(BeforeSlash(rest)) : BeforeSlash(rest)[i] = ":"
                        THEN fail(<<"f","i","r","s","t"," ","p","a","t","h"," ","s","e","g","m","e","n","t"," ","i","n"," ","U","R","L"," ","c","a","n","n","o","t"," ","c","o","n","t","a","i","n"," ","c","o","l","o","n">>)
                        ELSE checked(IF hasAuth THEN SubSeq(rest, Len(host) + 3, Len(rest)) ELSE rest)
            IN  located(HasPrefix(rest, <<"/">>),
                        HasPrefix(rest, <<"/","/">>) /\ (scheme # <<>> \/ ~HasPrefix(rest, <<"/","/","/">>)),
                        IF Len(rest) >= 2 THEN BeforeSlash(Tail(Tail(rest))) ELSE <<>>)
        \* url.getScheme: n characters of raw may belong to a scheme
        schemed(n) ==
            IF raw # <<>> /\ raw[1] \in Digit \cup {"+", "-", "."} THEN parsed(<<>>, raw)
            ELSE IF n < Len(raw) /\ raw[n + 1] = ":"
            THEN IF n = 0 THEN fail(<<"m","i","s","s","i","n","g"," ","p","r","o","t","o","c","o","l"," ","s","c","h","e","m","e">>)
                 ELSE parsed([i \in 1..n |-> ToLowerChar(raw[i])], SubSeq(raw, n + 2, Len(raw)))
            ELSE parsed(<<>>, raw)
    IN  schemed(SpanLen(raw, Lower \cup Upper \cup Digit \cup {"+", "-", "."}))

URLString(u) ==
    LET head == IF u.Scheme # <<>> THEN u.Scheme \o <<":">> ELSE <<>>
        slashes == IF (u.Scheme # <<>> \/ u.Host # <<>>) /\ ~(u.OmitHost /\ u.Host = <<>>)
                      /\ (u.Host # <<>> \/ u.Path # <<>>)
                   THEN <<"/","/">> ELSE <<>>
        sep == IF u.Path # <<>> /\ u.Path[1] # "/" /\ u.Host # <<>> THEN <<"/">> ELSE <<>>
    IN  IF u.Opaque # <<>> THEN head \o u.Opaque
        ELSE head \o slashes \o u.Host \o sep \o u.Path

(***************************************************************************)
(* github.com/iancoleman/strcase: ToKebab, ToScreamingSnake, ToDelimited   *)
(***************************************************************************)
RECURSIVE Concat(_)
Concat(ss) == IF ss = <<>> THEN <<>> ELSE Head(ss) \o Concat(Tail(ss))

\* what the loop of ToScreamingDelimited writes for the i-th character of s
DelimitedChunk(s, i, delimiter, screaming) ==
    LET emit(v, vIsCap, vIsLow, nextIsCap, nextIsLow, nextIsNum) ==
            IF \/ vIsCap /\ (nextIsLow \/ nextIsNum)
               \/ vIsLow /\ (nextIsCap \/ nextIsNum)
               \/ v \in Digit /\ (nextIsCap \/ nextIsLow)
            THEN (IF vIsCap /\ nextIsLow /\ i > 1 /\ s[i - 1] \in Upper THEN <<delimiter>> ELSE <<>>)
                 \o <<v>>
                 \o (IF vIsLow \/ v \in Digit \/ nextIsNum THEN <<delimiter>> ELSE <<>>)
            ELSE IF v \in {" ", "_", "-", "."} THEN <<delimiter>> ELSE <<v>>
    IN  emit(IF s[i] \in Lower /\ screaming THEN ToUpperChar(s[i])
             ELSE IF s[i] \in Upper /\ ~screaming THEN ToLowerChar(s[i]) ELSE s[i],
             s[i] \in Upper, s[i] \in Lower,
             i < Len(s) /\ s[i + 1] \in Upper, i < Len(s) /\ s[i + 1] \in Lower,
             i < Len(s) /\ s[i + 1] \in Digit)

ToScreamingDelimited(s, delimiter, screaming) ==
    Concat([i \in 1..Len(s) |-> DelimitedChunk(s, i, delimiter, screaming)])

ToKebab(s) == ToScreamingDelimited(s, "-", FALSE)

ToScreamingSnake(s) == ToScreamingDelimited(s, "_", TRUE)

ToDelimited(s, d) == ToScreamingDelimited(s, d, FALSE)

(***************************************************************************)
(* value.go: StringSlice, IntSlice, URL, Time                              *)
(***************************************************************************)
\* strings.Split(s, sep) for a one-character separator
RECURSIVE Split(_, _)
Split(s, sep) ==
    LET n == SpanLen(s, {s[i] : i \in 1..Len(s)} \ {sep})
    IN  IF n = Len(s) THEN <<s>>
        ELSE <<SubSeq(s, 1, n)>> \o Split(SubSeq(s, n + 2, Len(s)), sep)

\* strings.Join
RECURSIVE Join(_, _)
Join(ss, sep) ==
    IF ss = <<>> THEN <<>>
    ELSE IF Len(ss) = 1 THEN ss[1]
    ELSE ss[1] \o sep \o Join(Tail(ss), sep)

\* two other Sets a list of texts could have: one that adds the segments to
\* the list it holds, one that splits the empty text too (C15 and C19 tell
\* StringSliceSet from them)
StringSliceSetAppend(f, s) ==
    IF s = <<>> THEN [val |-> f, err |-> nil]
    ELSE [val |-> f \o Split(s, ","), err |-> nil]

StringSliceSetSplitsEmpty(f, s) == [val |-> Split(s, ","), err |-> nil]

\* (*StringSlice).Set: the receiver's new value and the error
StringSliceSet(f, s) ==
    IF s = <<>> THEN [val |-> f, err |-> nil]
    ELSE [val |-> Split(s, ","), err |-> nil]

StringSliceString(f) ==
    IF Len(f) = 0 THEN <<"[","]">>
    ELSE <<"[","'">> \o Join(f, <<"'",",","'">>) \o <<"'","]">>

\* a loop that leaves the integers parsed before the failing token in the
\* list (C14 tells IntSliceLoop from it)
RECURSIVE IntSliceLoopPartial(_, _)
IntSliceLoopPartial(vs, acc) ==
    LET step(r) ==
            IF r.err # nil THEN [val |-> acc, err |-> Errorf(<<"p","a","r","s","i","n","g"," ","i","n","t",":"," ">>, r.err)]
            ELSE IntSliceLoopPartial(Tail(vs), Append(acc, r.val))
    IN  IF vs = <<>> THEN [val |-> acc, err |-> nil] ELSE step(Atoi(Head(vs)))

\* the loop of (*IntSlice).Set over the tokens vs, acc being *f so far
RECURSIVE IntSliceLoop(_, _)
IntSliceLoop(vs, acc) ==
    LET step(r) ==
            IF r.err # nil THEN [val |-> <<>>, err |-> Errorf(<<"p","a","r","s","i","n","g"," ","i","n","t",":"," ">>, r.err)]
            ELSE IntSliceLoop(Tail(vs), Append(acc, r.val))
    IN  IF vs = <<>> THEN [val |-> acc, err |-> nil] ELSE step(Atoi(Head(vs)))

IntSliceSet(f, s) ==
    IF s = <<>> THEN [val |-> f, err |-> nil]
    ELSE IntSliceLoop(Split(s, ","), <<>>)

IntSliceString(f) ==
    IF Len(f) = 0 THEN <<"[","]">>
    ELSE <<"[">> \o Join([i \in 1..Len(f) |-> FormatInt(f[i])], <<",">>) \o <<"]">>

\* (*URL).Set: f.URL is assigned only when url.Parse succeeds
URLSet(f, s) ==
    LET set(r) == IF r.err # nil THEN [val |-> f, err |-> Errorf(<<"p","a","r","s","i","n","g"," ","u","r","l",":"," ">>, r.err)]
                  ELSE [val |-> [URL |-> r.val], err |-> nil]
    IN  set(URLParse(s))

URLValueString(f) == IF f.URL.set THEN URLString(f.URL) ELSE <<>>

\* (*Time).Set: f.Time is assigned only when time.Parse succeeds
TimeSet(f, s) ==
    LET set(r) == IF r.err # nil THEN [val |-> f, err |-> Errorf(<<"p","a","r","s","i","n","g"," ","t","i","m","e",":"," ">>, r.err)]
                  ELSE [val |-> [Time |-> r.val], err |-> nil]
    IN  set(TimeParse(s))

TimeValueString(f) == IF f.Time.set THEN TimeFormat(f.Time) ELSE <<>>

ZeroURL == [URL |-> NilURL]

ZeroTime == [Time |-> NilTime]

(***************************************************************************)
(* package flag: the FlagSet the binder registers with and parses through  *)
(***************************************************************************)
errParse == NewError("flag.errParse", <<"p","a","r","s","e"," ","e","r","r","o","r">>)

errRange == NewError("flag.errRange", <<"v","a","l","u","e"," ","o","u","t"," ","o","f"," ","r","a","n","g","e">>)

\* flag.numError
numError(err) ==
    IF "strconv.ErrSyntax" \in err.is THEN errParse
    ELSE IF "strconv.ErrRange" \in err.is THEN errRange
    ELSE err

\* Value.String() of the value registered for a field of the given type
ValueString(type, v) ==
    CASE type = "bool" -> FormatBool(v)
      [] type = "string" -> v
      [] type \in {"uint", "uint64", "int", "int64"} -> FormatInt(v)
      [] type = "float64" -> FormatFloat(v)
      [] type = "time.Duration" -> DurationString(v)
      [] type = "act.StringSlice" -> StringSliceString(v)
      [] type = "act.IntSlice" -> IntSliceString(v)
      [] type = "act.URL" -> URLValueString(v)
      [] type = "act.Time" -> TimeValueString(v)

\* Value.Set(s) of a registered flag whose variable holds cur: the value the
\* variable holds afterwards, and the error.  The flag package's own values
\* store the result of the conversion also when it failed.
ValueSet(type, cur, s) ==
    LET num(r) == [val |-> r.val, err |-> IF r.err = nil THEN nil ELSE numError(r.err)]
        plain(r) == [val |-> r.val, err |-> IF r.err = nil THEN nil ELSE errParse]
    IN  CASE type = "bool" -> plain(ParseBool(s))
          [] type = "string" -> [val |-> s, err |-> nil]
          [] type \in {"uint", "uint64"} -> num(ParseUint(s, 0, MaxUint64, <<"P","a","r","s","e","U","i","n","t">>, s))
          [] type \in {"int", "int64"} -> num(ParseInt(s, 0, <<"P","a","r","s","e","I","n","t">>))
          [] type = "float64" -> num(ParseFloat(s))
          [] type = "time.Duration" -> plain(ParseDuration(s))
          [] type = "act.StringSlice" -> StringSliceSet(cur, s)
          [] type = "act.IntSlice" -> IntSliceSet(cur, s)
          [] type = "act.URL" -> URLSet(cur, s)
          [] type = "act.Time" -> TimeSet(cur, s)

\* one write to the output sink: a line of text, or the usage text (its
\* header line and what PrintDefaults prints for every registered flag)
Line(text) == [kind |-> "line", text |-> text, defaults |-> {}]

\* FlagSet.usage with FlagSet.defaultUsage
usage(a, st) ==
    [kind |-> "usage",
     text |-> IF a.name = <<>> THEN <<"U","s","a","g","e",":">> ELSE <<"U","s","a","g","e"," ","o","f"," ">> \o a.name \o <<":">>,
     defaults |-> {[Name |-> st.formal[i].Name, Usage |-> st.formal[i].Usage,
                    DefValue |-> st.formal[i].DefValue] : i \in 1..Len(st.formal)}]

\* FlagSet.failf: print the message, print the usage, return the message as error
failf(a, st, msg) ==
    [st EXCEPT !.out = @ \o <<Line(msg), usage(a, st)>>, !.err = NewError("flag.failf", msg)]

\* FlagSet.Var, reached through BoolVar, StringVar, ... and directly: the
\* variable already holds the baseline when the name is checked
Var(a, st, path, type, name, usageText, val) ==
    LET stored == [st EXCEPT !.mem[path] = val]
        redefined == (IF a.name = <<>> THEN <<>> ELSE a.name \o <<" ">>) \o <<"f","l","a","g"," ","r","e","d","e","f","i","n","e","d",":"," ">> \o name
    IN  IF name # <<>> /\ name[1] = "-"
        THEN [stored EXCEPT !.panic = <<"f","l","a","g"," ">> \o Quote(name) \o <<" ","b","e","g","i","n","s"," ","w","i","t","h"," ","-">>]
        ELSE IF \E i \in 1..Len(name) : name[i] = "="
        THEN [stored EXCEPT !.panic = <<"f","l","a","g"," ">> \o Quote(name) \o <<" ","c","o","n","t","a","i","n","s"," ","=">>]
        ELSE IF \E i \in 1..Len(st.formal) : st.formal[i].Name = name
        THEN [stored EXCEPT !.out = Append(@, Line(redefined)), !.panic = redefined]
        ELSE [stored EXCEPT !.formal = Append(@, [Name |-> name, Usage |-> usageText, Type |-> type,
                                                   Path |-> path, DefValue |-> ValueString(type, val)])]

\* FlagSet.Parse with FlagSet.parseOne: the loop over the argument list
RECURSIVE FlagSetParse(_, _, _)
FlagSetParse(a, st, args) ==
    LET s == Head(args)
        \* the flag fl, named name, is given the text value; rest is what follows
        given(fl, name, value, hasEq, rest) ==
            LET set(r) ==
                    IF r.err = nil
                    THEN FlagSetParse(a, [st EXCEPT !.mem[fl.Path] = r.val,
                                                    !.actual = Append(@, [Name |-> name, Text |-> value])], rest)
                    ELSE failf(a, [st EXCEPT !.mem[fl.Path] = r.val],
                               IF fl.Type # "bool"
                               THEN <<"i","n","v","a","l","i","d"," ","v","a","l","u","e"," ">> \o Quote(value) \o <<" ","f","o","r"," ","f","l","a","g"," ","-">> \o name \o <<":"," ">> \o r.err.msg
                               ELSE IF hasEq
                               THEN <<"i","n","v","a","l","i","d"," ","b","o","o","l","e","a","n"," ","v","a","l","u","e"," ">> \o Quote(value) \o <<" ","f","o","r"," ","-">> \o name \o <<":"," ">> \o r.err.msg
                               ELSE <<"i","n","v","a","l","i","d"," ","b","o","o","l","e","a","n"," ","f","l","a","g"," ">> \o name \o <<":"," ">> \o r.err.msg)
            IN  set(ValueSet(fl.Type, st.mem[fl.Path], value))
        \* the token spells name, followed by "=" and a value if eq <= Len(full)
        named(full, name, eq, found) ==
            LET defined(fl) ==
                    IF eq <= Len(full) THEN given(fl, name, SubSeq(full, eq + 1, Len(full)), TRUE, Tail(args))
                    ELSE IF fl.Type = "bool" THEN given(fl, name, <<"t","r","u","e">>, FALSE, Tail(args))
                    ELSE IF Len(args) > 1 THEN given(fl, name, args[2], FALSE, Tail(Tail(args)))
                    ELSE failf(a, st, <<"f","l","a","g"," ","n","e","e","d","s"," ","a","n"," ","a","r","g","u","m","e","n","t",":"," ","-">> \o name)
            IN  IF found = {}
                THEN IF name \in {<<"h","e","l","p">>, <<"h">>}
                     THEN [st EXCEPT !.out = Append(@, usage(a, st)), !.err = ErrHelp]
                     ELSE failf(a, st, <<"f","l","a","g"," ","p","r","o","v","i","d","e","d"," ","b","u","t"," ","n","o","t"," ","d","e","f","i","n","e","d",":"," ","-">> \o name)
                ELSE defined(st.formal[CHOOSE i \in found : TRUE])
        \* full is the token without its one or two dashes
        dashed(full) ==
            LET split(eq) ==
                    named(full, SubSeq(full, 1, eq - 1), eq,
                          {i \in 1..Len(st.formal) : st.formal[i].Name = SubSeq(full, 1, eq - 1)})
            IN  IF full = <<>> \/ full[1] \in {"-", "="} THEN failf(a, st, <<"b","a","d"," ","f","l","a","g"," ","s","y","n","t","a","x",":"," ">> \o s)
                ELSE split(2 + SpanLen(Tail(full), {full[i] : i \in 1..Len(full)} \ {"="}))
    IN  IF args = <<>> THEN st
        ELSE IF Len(s) < 2 \/ s[1] # "-" THEN st
        ELSE IF s = <<"-","-">> THEN st
        ELSE dashed(SubSeq(s, IF s[2] = "-" THEN 3 ELSE 2, Len(s)))

(***************************************************************************)
(* act.go: the binder                                                       *)
(***************************************************************************)
ContinueOnError == "ContinueOnError"

ExitOnError == "ExitOnError"

PanicOnError == "PanicOnError"

\* New(name, opts...) with the option WithErrorHandling.  WithOutput names the
\* one sink of the model, WithLookupEnvFunc the environment Parse consults.
New(name, opts) ==
    [name |-> name,
     errorHandling |-> IF "errorHandling" \in DOMAIN opts THEN opts.errorHandling ELSE ExitOnError,
     help |-> FALSE]

\* Act.parseHelp: the new value of a.help
parseHelp(help, flags) ==
    IF \E i \in 1..Len(flags) : flags[i] \in {<<"-","-","h","e","l","p">>, <<"-","h","e","l","p">>, <<"-","-","h">>, <<"-","h">>}
    THEN TRUE ELSE help

\* Act.flagName
flagName(sf, prefix) ==
    IF sf.Tag.flag # <<>> THEN sf.Tag.flag
    ELSE ToKebab(IF prefix # <<>> THEN prefix \o <<"-">> \o sf.Name ELSE sf.Name)

\* Act.envVarName
envVarName(a, sf, prefix) ==
    IF sf.Tag.env # <<>> THEN sf.Tag.env
    ELSE ToScreamingSnake(IF prefix # <<>> THEN a.name \o <<"_">> \o prefix \o <<"_">> \o sf.Name
                          ELSE a.name \o <<"_">> \o sf.Name)

\* Act.usage: the description registered with the flag
usageOf(sf, env, prefix) ==
    IF sf.Tag.help # <<>> THEN sf.Tag.help \o <<" ","(","e","n","v"," ">> \o env \o <<")">>
    ELSE ToDelimited(IF prefix # <<>> THEN prefix \o <<" ">> \o sf.Name ELSE sf.Name, " ")
         \o <<" ","(","e","n","v"," ">> \o env \o <<")">>

\* a prefix that forgets the parents above the nearest one
newPrefixNearest(sf, prefix) == sf.Name

\* Act.newPrefix
newPrefix(sf, prefix) == IF prefix # <<>> THEN prefix \o <<"-">> \o sf.Name ELSE sf.Name

\* the environment-lookup function: a finite environment, and what the
\* function answers for every other name
LookupEnv(env, name) ==
    IF name \in DOMAIN env.vars THEN [val |-> env.vars[name], ok |-> TRUE] ELSE env.other

\* reflect.Kind.String() and the printed name of a type
GoText(id) ==
    CASE id = "bool" -> <<"b","o","o","l">> [] id = "string" -> <<"s","t","r","i","n","g">> [] id = "uint" -> <<"u","i","n","t">>
      [] id = "uint64" -> <<"u","i","n","t","6","4">> [] id = "int" -> <<"i","n","t">> [] id = "int64" -> <<"i","n","t","6","4">>
      [] id = "float64" -> <<"f","l","o","a","t","6","4">> [] id = "struct" -> <<"s","t","r","u","c","t">> [] id = "slice" -> <<"s","l","i","c","e">>
      [] id = "int16" -> <<"i","n","t","1","6">> [] id = "ptr" -> <<"p","t","r">> [] id = "[]string" -> <<"[","]","s","t","r","i","n","g">>
      [] id = "*int" -> <<"*","i","n","t">> [] id = "main.MyBool" -> <<"m","a","i","n",".","M","y","B","o","o","l">>
      [] id = "main.MyInt64" -> <<"m","a","i","n",".","M","y","I","n","t","6","4">>

\* the failure of a type assertion varPointer.(*T) on a pointer to another type
assertionPanic(sf, want) ==
    <<"i","n","t","e","r","f","a","c","e"," ","c","o","n","v","e","r","s","i","o","n",":"," ","i","n","t","e","r","f","a","c","e"," ","{","}"," ","i","s"," ","*">> \o GoText(sf.Type) \o <<","," ","n","o","t"," ","*">> \o GoText(want)

parseBool(a, st, p, flag, value, usageText) ==
    LET registered(r) ==
            IF value # <<>> /\ r.err # nil
            THEN [st EXCEPT !.err = Errorf(<<"p","a","r","s","i","n","g"," ","b","o","o","l"," ">> \o Quote(value) \o <<":"," ">>, r.err)]
            ELSE Var(a, st, p, "bool", flag, usageText, IF value = <<>> THEN FALSE ELSE r.val)
    IN  registered(ParseBool(value))

\* a parseUint that converts at 64 bits (C23 tells parseUint from it)
parseUintWide(a, st, p, flag, value, usageText) ==
    LET registered(r) ==
            IF value # <<>> /\ r.err # nil
            THEN [st EXCEPT !.err = Errorf(<<"p","a","r","s","i","n","g"," ","u","i","n","t"," ">> \o Quote(value) \o <<":"," ">>, r.err)]
            ELSE Var(a, st, p, "uint", flag, usageText, IF value = <<>> THEN Zero ELSE r.val)
    IN  registered(ParseUint(value, 10, MaxUint64, <<"P","a","r","s","e","U","i","n","t">>, value))

parseUint(a, st, p, flag, value, usageText) ==
    LET registered(r) ==
            IF value # <<>> /\ r.err # nil
            THEN [st EXCEPT !.err = Errorf(<<"p","a","r","s","i","n","g"," ","u","i","n","t"," ">> \o Quote(value) \o <<":"," ">>, r.err)]
            ELSE Var(a, st, p, "uint", flag, usageText, IF value = <<>> THEN Zero ELSE r.val)
    IN  registered(ParseUint(value, 10, MaxUint32, <<"P","a","r","s","e","U","i","n","t">>, value))

parseUint64(a, st, p, flag, value, usageText) ==
    LET registered(r) ==
            IF value # <<>> /\ r.err # nil
            THEN [st EXCEPT !.err = Errorf(<<"p","a","r","s","i","n","g"," ","u","i","n","t","6","4"," ">> \o Quote(value) \o <<":"," ">>, r.err)]
            ELSE Var(a, st, p, "uint64", flag, usageText, IF value = <<>> THEN Zero ELSE r.val)
    IN  registered(ParseUint(value, 10, MaxUint64, <<"P","a","r","s","e","U","i","n","t">>, value))

\* a parseInt that registers the flag before it converts the text (C20
\* tells parseInt from it)
parseIntEager(a, st, p, flag, value, usageText) ==
    LET registered(r, zeroed) ==
            IF value # <<>> /\ r.err # nil
            THEN [zeroed EXCEPT !.err = Errorf(<<"p","a","r","s","i","n","g"," ","i","n","t"," ">> \o Quote(value) \o <<":"," ">>, r.err)]
            ELSE [zeroed EXCEPT !.mem[p] = r.val]
    IN  registered(Atoi(value), Var(a, st, p, "int", flag, usageText, Zero))

parseInt(a, st, p, flag, value, usageText) ==
    LET registered(r) ==
            IF value # <<>> /\ r.err # nil
            THEN [st EXCEPT !.err = Errorf(<<"p","a","r","s","i","n","g"," ","i","n","t"," ">> \o Quote(value) \o <<":"," ">>, r.err)]
            ELSE Var(a, st, p, "int", flag, usageText, IF value = <<>> THEN Zero ELSE r.val)
    IN  registered(Atoi(value))

parseInt64(a, st, p, flag, value, usageText) ==
    LET registered(r) ==
            IF value # <<>> /\ r.err # nil
            THEN [st EXCEPT !.err = Errorf(<<"p","a","r","s","i","n","g"," ","i","n","t","6","4"," ">> \o Quote(value) \o <<":"," ">>, r.err)]
            ELSE Var(a, st, p, "int64", flag, usageText, IF value = <<>> THEN Zero ELSE r.val)
    IN  registered(ParseInt(value, 10, <<"P","a","r","s","e","I","n","t">>))

parseDuration(a, st, p, flag, value, usageText) ==
    LET registered(r) ==
            IF value # <<>> /\ r.err # nil
            THEN [st EXCEPT !.err = Errorf(<<"p","a","r","s","i","n","g"," ","d","u","r","a","t","i","o","n"," ">> \o Quote(value) \o <<":"," ">>, r.err)]
            ELSE Var(a, st, p, "time.Duration", flag, usageText, IF value = <<>> THEN 0 ELSE r.val)
    IN  registered(ParseDuration(value))

parseFloat64(a, st, p, flag, value, usageText) ==
    LET registered(r) ==
            IF value # <<>> /\ r.err # nil
            THEN [st EXCEPT !.err = Errorf(<<"p","a","r","s","i","n","g"," ","f","l","o","a","t","6","4"," ">> \o Quote(value) \o <<":"," ">>, r.err)]
            ELSE Var(a, st, p, "float64", flag, usageText, IF value = <<>> THEN ZeroFloat ELSE r.val)
    IN  registered(ParseFloat(value))

\* the error of StringSlice.Set is dropped
parseStringSlice(a, st, p, flag, value, usageText) ==
    Var(a, st, p, "act.StringSlice", flag, usageText,
        IF value = <<>> THEN <<>> ELSE StringSliceSet(<<>>, value).val)

parseIntSlice(a, st, p, flag, value, usageText) ==
    LET registered(r) ==
            IF value # <<>> /\ r.err # nil THEN [st EXCEPT !.err = r.err]
            ELSE Var(a, st, p, "act.IntSlice", flag, usageText, IF value = <<>> THEN <<>> ELSE r.val)
    IN  registered(IntSliceSet(<<>>, value))

parseURL(a, st, p, flag, value, usageText) ==
    LET registered(r) ==
            IF value # <<>> /\ r.err # nil THEN [st EXCEPT !.err = r.err]
            ELSE Var(a, st, p, "act.URL", flag, usageText, IF value = <<>> THEN ZeroURL ELSE r.val)
    IN  registered(URLSet(ZeroURL, value))

parseTime(a, st, p, flag, value, usageText) ==
    LET registered(r) ==
            IF value # <<>> /\ r.err # nil THEN [st EXCEPT !.err = r.err]
            ELSE Var(a, st, p, "act.Time", flag, usageText, IF value = <<>> THEN ZeroTime ELSE r.val)
    IN  registered(TimeSet(ZeroTime, value))

\* Act.parseValue: the switch on the field's kind, then on the pointer's type
parseValue(a, st, sf, p, flag, value, usageText) ==
    LET unsupported == [st EXCEPT !.err =
            [is |-> ErrUnsupportedType.is,
             msg |-> <<"p","a","r","s","i","n","g"," ","v","a","l","u","e",":"," ">> \o ErrUnsupportedType.msg \o <<":"," ">> \o GoText(sf.Kind)]]
        assert(want, then) == IF sf.Type = want THEN then
                              ELSE [st EXCEPT !.panic = assertionPanic(sf, want)]
    IN  CASE sf.Kind = "bool" -> assert("bool", parseBool(a, st, p, flag, value, usageText))
          [] sf.Kind = "string" -> assert("string", Var(a, st, p, "string", flag, usageText, value))
          [] sf.Kind = "uint" -> assert("uint", parseUint(a, st, p, flag, value, usageText))
          [] sf.Kind = "uint64" -> assert("uint64", parseUint64(a, st, p, flag, value, usageText))
          [] sf.Kind = "int" -> assert("int", parseInt(a, st, p, flag, value, usageText))
          [] sf.Kind = "int64" ->
                IF sf.Type = "time.Duration" THEN parseDuration(a, st, p, flag, value, usageText)
                ELSE IF sf.Type = "int64" THEN parseInt64(a, st, p, flag, value, usageText)
                ELSE unsupported
          [] sf.Kind = "float64" -> assert("float64", parseFloat64(a, st, p, flag, value, usageText))
          [] sf.Kind = "struct" ->
                IF sf.Type = "act.URL" THEN parseURL(a, st, p, flag, value, usageText)
                ELSE IF sf.Type = "act.Time" THEN parseTime(a, st, p, flag, value, usageText)
                ELSE unsupported
          [] sf.Kind = "slice" ->
                IF sf.Type = "act.StringSlice" THEN parseStringSlice(a, st, p, flag, value, usageText)
                ELSE IF sf.Type = "act.IntSlice" THEN parseIntSlice(a, st, p, flag, value, usageText)
                ELSE unsupported
          [] OTHER -> unsupported

\* two other tests a binder could make: the environment is never used, or it
\* is used whenever the variable is found (C1 and C6 tell useEnv from them)
useEnvNever(a, env) == FALSE

useEnvFound(a, env) == env.ok

\* a test that takes an empty environment value as not set (C27 tells
\* useEnv from it)
useEnvNotEmpty(a, env) == env.ok /\ env.val # <<>> /\ ~a.help

\* Act.parse, the test that sends a leaf to the environment value
useEnv(a, env) == env.ok /\ ~a.help

RECURSIVE parseFields(_, _, _, _, _, _)
\* a loop body that looks a record field up in the environment before it
\* recurses into it (C21 tells parseField from it)
parseFieldLooksUpRecords(a, st, sf, prefix, path) ==
    LET leaf(envName, env) ==
            LET wrapped(r) ==
                    IF r.err = nil THEN r
                    ELSE [r EXCEPT !.err = Errorf(sf.Name \o (IF useEnv(a, env) THEN <<" ","e","n","v",":"," ">> ELSE <<" ","d","e","f",":"," ">>),
                                                  r.err)]
            IN  wrapped(parseValue(a, [st EXCEPT !.lookups = Append(@, envName)], sf, Append(path, sf.Name),
                                   flagName(sf, prefix), IF useEnv(a, env) THEN env.val ELSE sf.Tag.def,
                                   usageOf(sf, envName, prefix)))
        named(envName) ==
            IF sf.Kind = "struct" /\ sf.Type \notin {"act.URL", "act.Time"}
            THEN parseFields(a, [st EXCEPT !.lookups = Append(@, envName)], sf.Fields, 1,
                             newPrefix(sf, prefix), Append(path, sf.Name))
            ELSE leaf(envName, LookupEnv(st.env, envName))
    IN  named(envVarName(a, sf, prefix))

\* Act.parse, the body of the loop for field i of the record at path, and the
\* loop itself: a record field that is neither URL nor Time is recursed into,
\* any other field is looked up in the environment and registered
parseField(a, st, sf, prefix, path) ==
    LET leaf(envName, env) ==
            LET wrapped(r) ==
                    IF r.err = nil THEN r
                    ELSE [r EXCEPT !.err = Errorf(sf.Name \o (IF useEnv(a, env) THEN <<" ","e","n","v",":"," ">> ELSE <<" ","d","e","f",":"," ">>),
                                                  r.err)]
            IN  wrapped(parseValue(a, [st EXCEPT !.lookups = Append(@, envName)], sf, Append(path, sf.Name),
                                   flagName(sf, prefix), IF useEnv(a, env) THEN env.val ELSE sf.Tag.def,
                                   usageOf(sf, envName, prefix)))
        named(envName) == leaf(envName, LookupEnv(st.env, envName))
    IN  IF sf.Kind = "struct" /\ sf.Type \notin {"act.URL", "act.Time"}
        THEN parseFields(a, st, sf.Fields, 1, newPrefix(sf, prefix), Append(path, sf.Name))
        ELSE named(envVarName(a, sf, prefix))

parseFields(a, st, fields, i, prefix, path) ==
    LET next(r) == IF r.err # nil \/ r.panic # <<>> THEN r
                   ELSE parseFields(a, r, fields, i + 1, prefix, path)
    IN  IF i > Len(fields) THEN st ELSE next(parseField(a, st, fields[i], prefix, path))

\* a weaker test on the type of config: any pointer passes (C3 tells
\* invalidConfigType from it)
notPointer(config) == config.Kind # "ptr"

\* Act.parse, the test on the type of config
invalidConfigType(config) == config.Kind # "ptr" \/ config.Elem # "struct"

\* Act.parse at the top level: a is the binder after parseHelp
parse(a, st, config) ==
    IF invalidConfigType(config) THEN [st EXCEPT !.err = ErrInvalidConfigType]
    ELSE IF config.IsNil
    THEN [st EXCEPT !.panic = <<"r","e","f","l","e","c","t",":"," ","c","a","l","l"," ","o","f"," ","r","e","f","l","e","c","t",".","V","a","l","u","e",".","N","u","m","F","i","e","l","d"," ","o","n"," ","z","e","r","o"," ","V","a","l","u","e">>]
    ELSE parseFields(a, st, config.Fields, 1, <<>>, <<>>)

\* other endings Act.exit could give: a clean exit for the help condition
\* alone, a message prefixed with the command name, a panic with a new error
\* of the same text (C7, C8 and C9 tell exitsClean, exitMessage and
\* panicValue from them)
exitsCleanOnHelpCondition(a, err) == "ErrHelp" \in err.is

exitMessageNamed(a, err) == a.name \o <<":"," ">> \o err.msg

panicValueText(err) == NewError("panic", err.msg)

\* Act.exit under flag.ContinueOnError: the error Parse returns
continueResult(err) == IF "ErrHelp" \in err.is THEN nil ELSE err

\* Act.exit under flag.ExitOnError: the test that selects os.Exit(0)
exitsClean(a, err) == a.help \/ "ErrHelp" \in err.is

\* Act.exit under flag.ExitOnError: the line written before os.Exit(2)
exitMessage(a, err) == <<"a","c","t",":"," ">> \o err.msg

\* Act.exit under flag.PanicOnError: the value panic is called with
panicValue(err) == err

\* Act.exit: how the call ends, and what it writes
exit(a, st, err) ==
    LET returned(e) == [st EXCEPT !.end = [kind |-> "return", err |-> e, code |-> 0]]
    IN  IF err = nil THEN returned(nil)
        ELSE IF a.errorHandling = ContinueOnError THEN returned(continueResult(err))
        ELSE IF a.errorHandling = ExitOnError
        THEN IF exitsClean(a, err)
             THEN [st EXCEPT !.end = [kind |-> "exit", err |-> nil, code |-> 0]]
             ELSE [st EXCEPT !.out = Append(@, Line(exitMessage(a, err))),
                             !.end = [kind |-> "exit", err |-> nil, code |-> 2]]
        ELSE IF a.errorHandling = PanicOnError
        THEN [st EXCEPT !.end = [kind |-> "panic", err |-> panicValue(err), code |-> 0]]
        ELSE returned(nil)

\* a panic raised below Parse (reflect, flag.Var, a type assertion) unwinds it
unwind(st) == [st EXCEPT !.end = [kind |-> "panic", err |-> NewError("runtime", st.panic), code |-> 0]]

\* Act.Parse(config, flags)
Parse(a, st, config, flags) ==
    LET ended(b, r) == exit(b, [r EXCEPT !.raised = r.err], r.err)
        flagged(b, walked) ==
            IF walked.panic # <<>> THEN unwind(walked)
            ELSE IF walked.err # nil THEN ended(b, walked)
            ELSE ended(b, FlagSetParse(b, walked, flags))
        walk(b) == flagged(b, parse(b, st, config))
    IN  walk([a EXCEPT !.help = parseHelp(a.help, flags)])

(***************************************************************************)
(* The calls made on the binder: the records, environments and argument    *)
(* lists Parse is called with                                              *)
(***************************************************************************)
\* the longest argument list
MaxArgs == 2

NoTag == [flag |-> <<>>, env |-> <<>>, help |-> <<>>, def |-> <<>>]

Leaf(name, kind, type, def) ==
    [Name |-> name, Kind |-> kind, Type |-> type, Tag |-> [NoTag EXCEPT !.def = def], Fields |-> <<>>]

Struct(name, fields) ==
    [Name |-> name, Kind |-> "struct", Type |-> "struct", Tag |-> NoTag, Fields |-> fields]

\* the leaf types Act.parseValue dispatches on, as <<kind, type>>
SupportedTypes ==
    {<<"bool", "bool">>, <<"string", "string">>, <<"uint", "uint">>, <<"uint64", "uint64">>,
     <<"int", "int">>, <<"int64", "int64">>, <<"float64", "float64">>, <<"int64", "time.Duration">>,
     <<"slice", "act.StringSlice">>, <<"slice", "act.IntSlice">>, <<"struct", "act.URL">>,
     <<"struct", "act.Time">>}

\* leaf types outside the dispatch table
UnsupportedTypes ==
    {<<"int16", "int16">>, <<"slice", "[]string">>, <<"ptr", "*int">>, <<"bool", "main.MyBool">>,
     <<"int64", "main.MyInt64">>}

\* three texts that convert for the type (used as def, environment value and
\* flag value) and one that does not (for string and StringSlice every text
\* converts)
Texts(type) ==
    CASE type = "bool" -> <<<<"t","r","u","e">>, <<"f","a","l","s","e">>, <<"f","a","l","s","e">>, <<"a">>>>
      [] type = "string" -> <<<<"d","e","b","u","g">>, <<"i","n","f","o">>, <<"w","a","r","n">>, <<"a">>>>
      [] type = "uint" -> <<<<"1">>, <<"2">>, <<"3">>, <<"4","2","9","4","9","6","7","2","9","6">>>>
      [] type = "uint64" -> <<<<"1">>, <<"2">>, <<"0","1","0">>, <<"a">>>>
      [] type = "int" -> <<<<"1">>, <<"-","2">>, <<"3">>, <<"a">>>>
      [] type = "int64" -> <<<<"5">>, <<"-","6">>, <<"7">>, <<"9","2","2","3","3","7","2","0","3","6","8","5","4","7","7","5","8","0","8">>>>
      [] type = "float64" -> <<<<"1",".","5">>, <<"2">>, <<"0",".","2","5">>, <<"a">>>>
      [] type = "time.Duration" -> <<<<"1","s">>, <<"2","4","h">>, <<"5","m">>, <<"1">>>>
      [] type = "act.StringSlice" -> <<<<"f","o","o",",","b","a","r">>, <<"b","a","z">>, <<"a",",","b">>, <<"a">>>>
      [] type = "act.IntSlice" -> <<<<"1","0",",","-","5",",","0">>, <<"7">>, <<"1",",","2">>, <<"1",",","a">>>>
      [] type = "act.URL" -> <<<<"h","t","t","p",":","/","/","h">>, <<"h","t","t","p",":","/","/","h","/","p">>, <<"/","x">>, <<"%">>>>
      [] type = "act.Time" -> <<<<"2","0","0","2","-","1","0","-","0","2","T","1","5",":","0","0",":","0","0","Z">>, <<"2","0","0","2","-","1","0","-","0","2","T","1","0",":","0","0",":","0","0","-","0","5",":","0","0">>,
                                <<"2","0","0","2","-","1","0","-","0","2","T","1","5",":","0","0",":","0","0",".","0","5","Z">>, <<"a">>>>
      [] OTHER -> <<<<"1">>, <<"2">>, <<"3">>, <<"a">>>>

\* the value the caller left in a field before the call
CallerValue(type) ==
    CASE type = "bool" -> TRUE
      [] type = "string" -> <<"c","a","l","l","e","r">>
      [] type \in {"uint", "uint64", "int", "int64"} -> [neg |-> FALSE, mag |-> <<"9">>]
      [] type = "float64" -> [neg |-> FALSE, int |-> <<"9">>, frac |-> <<>>]
      [] type = "time.Duration" -> 9
      [] type = "act.StringSlice" -> <<<<"c","a","l","l","e","r">>>>
      [] type = "act.IntSlice" -> <<[neg |-> FALSE, mag |-> <<"9">>]>>
      [] type = "act.URL" -> [URL |-> URLParse(<<"c","a","l","l","e","r">>).val]
      [] type = "act.Time" -> [Time |-> TimeParse(<<"1","9","9","9","-","0","9","-","0","9","T","0","9",":","0","9",":","0","9","Z">>).val]
      [] OTHER -> <<"c","a","l","l","e","r">>

\* the leaves of a record: each with its path, descriptor and the prefix
\* Act.parse reaches it with
RECURSIVE Leaves(_, _, _)
Leaves(fields, prefix, path) ==
    IF fields = <<>> THEN <<>>
    ELSE LET sf == Head(fields)
         IN  (IF sf.Kind = "struct" /\ sf.Type \notin {"act.URL", "act.Time"}
              THEN Leaves(sf.Fields, newPrefix(sf, prefix), Append(path, sf.Name))
              ELSE <<[path |-> Append(path, sf.Name), sf |-> sf, prefix |-> prefix]>>)
             \o Leaves(Tail(fields), prefix, path)

\* what Parse is handed as config: a pointer to a record, or something else
Record(fields) == [Kind |-> "ptr", Elem |-> "struct", IsNil |-> FALSE, Fields |-> fields]

Port == <<"P","o","r","t">>

SingleLeafRecords ==
    {Record(<<Leaf(Port, t[1], t[2], def)>>) :
        t \in SupportedTypes, def \in {<<>>} } \cup
    UNION {{Record(<<Leaf(Port, t[1], t[2], Texts(t[2])[i])>>) : i \in {1, 4}} : t \in SupportedTypes}

UnsupportedRecords == {Record(<<Leaf(Port, t[1], t[2], <<>>)>>) : t \in UnsupportedTypes}

\* records whose leaf is registered under the name of a help token, nested
\* records, and records of several leaves
OtherRecords ==
    {Record(<<Leaf(<<"H">>, "bool", "bool", <<>>)>>),
     Record(<<Leaf(<<"H">>, "string", "string", <<>>)>>),
     Record(<<Struct(<<"D","B">>, <<Leaf(Port, "uint", "uint", <<"1">>)>>)>>),
     Record(<<Struct(<<"D","B">>, <<Leaf(Port, "uint", "uint", <<"a">>)>>)>>),
     Record(<<Leaf(<<"L","o","g","L","e","v","e","l">>, "string", "string", <<"d","e","b","u","g">>), Leaf(Port, "int", "int", <<"1">>)>>),
     Record(<<Leaf(<<"L","o","g","L","e","v","e","l">>, "string", "string", <<"d","e","b","u","g">>), Leaf(Port, "int", "int", <<"a">>)>>),
     Record(<<>>)}

NotRecords ==
    {[Kind |-> "invalid", Elem |-> "", IsNil |-> TRUE, Fields |-> <<>>],
     [Kind |-> "slice", Elem |-> "string", IsNil |-> FALSE, Fields |-> <<>>],
     [Kind |-> "struct", Elem |-> "", IsNil |-> FALSE, Fields |-> <<Leaf(Port, "int", "int", <<>>)>>],
     [Kind |-> "ptr", Elem |-> "int", IsNil |-> FALSE, Fields |-> <<>>],
     [Kind |-> "ptr", Elem |-> "struct", IsNil |-> TRUE, Fields |-> <<Leaf(Port, "int", "int", <<>>)>>]}

Configs == SingleLeafRecords \cup UnsupportedRecords \cup OtherRecords \cup NotRecords

\* the memory behind config: the value of every leaf, by path
Memory(config) ==
    LET ls == Leaves(config.Fields, <<>>, <<>>)
    IN  [p \in {ls[i].path : i \in 1..Len(ls)} |->
            CallerValue((CHOOSE l \in {ls[i] : i \in 1..Len(ls)} : l.path = p).sf.Type)]

NotFound == [val |-> <<>>, ok |-> FALSE]

\* the environments: no variable is set, or every name looked up is found
\* with the same text (as the lookup functions of the tests answer)
Envs(config) ==
    LET ls == Leaves(config.Fields, <<>>, <<>>)
    IN  {[vars |-> <<>>, other |-> NotFound]} \cup
        {[vars |-> <<>>, other |-> [val |-> t, ok |-> TRUE]] :
            t \in {<<>>} \cup UNION {{Texts(ls[i].sf.Type)[2], Texts(ls[i].sf.Type)[4]} : i \in 1..Len(ls)}}

HelpTokens == {<<"-","h">>, <<"-","-","h">>, <<"-","h","e","l","p">>, <<"-","-","h","e","l","p">>}

\* the tokens of the argument lists: the help tokens, a malformed flag, the
\* terminator, an undefined flag, and for the leaves of the record a bare
\* text and the flag with a converting, a failing, an empty and no value
Tokens(config) ==
    LET ls == Leaves(config.Fields, <<>>, <<>>)
        first == ls[1]
        name(l) == <<"-">> \o flagName(l.sf, l.prefix)
    IN  HelpTokens \cup {<<"-","-","-","h","e","l","p">>, <<"-","-">>, <<"-","u">>} \cup
        (IF ls = <<>> THEN {}
         ELSE {Texts(first.sf.Type)[3], name(first), name(first) \o <<"=">>,
               name(first) \o <<"=">> \o Texts(first.sf.Type)[4]}
              \cup {name(ls[i]) \o <<"=">> \o Texts(ls[i].sf.Type)[3] : i \in 1..Len(ls)})

Argvs(config) == UNION {[1..n -> Tokens(config)] : n \in 0..MaxArgs}

\* the binders constructed: New(name) and New(name, WithErrorHandling(...))
Constructions ==
    {[name |-> <<"t","e","s","t">>, opts |-> <<>>],
     [name |-> <<"t","e","s","t">>, opts |-> [errorHandling |-> ContinueOnError]],
     [name |-> <<"t","e","s","t">>, opts |-> [errorHandling |-> PanicOnError]],
     [name |-> <<"c","o","o","l">>, opts |-> [errorHandling |-> ExitOnError]]}

(***************************************************************************)
(* The state: the binder, its FlagSet, the output sink, and the one call   *)
(* of Parse made on it with what it left behind; a value adapter used on   *)
(* its own (recv) with what its last method call returned (ret); a record  *)
(* whose names are derived (subject) and the names (derived)               *)
(***************************************************************************)
VARIABLES pc, a, formal, output, call, mem, trace, end, recv, ret, subject, derived

vars == <<pc, a, formal, output, call, mem, trace, end, recv, ret, subject, derived>>

\* the binder is left alone
binderVars == <<pc, a, formal, output, call, mem, trace, end>>

\* no adapter is used on its own, no names are derived
aloneVars == <<recv, ret, subject, derived>>

NoCall == [config |-> [Kind |-> "invalid", Elem |-> "", IsNil |-> TRUE, Fields |-> <<>>],
           env |-> [vars |-> <<>>, other |-> NotFound], flags |-> <<>>]

NoTrace == [lookups |-> <<>>, actual |-> <<>>, raised |-> nil]

Running == [kind |-> "running", err |-> nil, code |-> 0]

Init ==
    /\ pc = "new"
    /\ a = [name |-> <<>>, errorHandling |-> ExitOnError, help |-> FALSE]
    /\ formal = <<>>
    /\ output = <<>>
    /\ call = NoCall
    /\ mem = <<>>
    /\ trace = NoTrace
    /\ end = Running
    /\ recv = <<>>
    /\ ret = <<>>
    /\ subject = <<>>
    /\ derived = <<>>

\* a := New(name, opts...)
Construct ==
    /\ pc = "new"
    /\ \E c \in Constructions : a' = New(c.name, c.opts)
    /\ pc' = "ready"
    /\ UNCHANGED <<formal, output, call, mem, trace, end>>
    /\ UNCHANGED aloneVars

\* err := a.Parse(config, flags), from the call to its return, exit or panic,
\* with env behind the lookup function
ParseOn(config, env, flags) ==
    \E r \in {Parse(a, [formal |-> formal, mem |-> Memory(config), out |-> output, env |-> env,
                        err |-> nil, panic |-> <<>>, lookups |-> <<>>, actual |-> <<>>,
                        raised |-> nil, end |-> Running], config, flags)} :
        /\ a' = [a EXCEPT !.help = parseHelp(a.help, flags)]
        /\ formal' = r.formal
        /\ output' = r.out
        /\ mem' = r.mem
        /\ call' = [config |-> config, env |-> env, flags |-> flags]
        /\ trace' = [lookups |-> r.lookups, actual |-> r.actual, raised |-> r.raised]
        /\ end' = r.end

ParseCall ==
    /\ pc = "ready"
    /\ \E config \in Configs :
         \E env \in Envs(config), flags \in Argvs(config) : ParseOn(config, env, flags)
    /\ pc' = "done"
    /\ UNCHANGED aloneVars

Next == Construct \/ ParseCall

Spec == Init /\ [][Next]_vars


(***************************************************************************)
(* The walk over the record: the same calls on more records, under         *)
(* argument lists of help tokens and of flags of the leaves                *)
(***************************************************************************)
\* records with leaves before, below and after a leaf whose def does or does
\* not convert
\* texts at and beyond the limits of the numeric types, and texts that are
\* not base-10 numbers
RangeTexts(type) ==
    CASE type = "uint" -> {<<"0">>, <<"4","2","9","4","9","6","7","2","9","5">>, <<"4","2","9","4","9","6","7","2","9","6">>, <<"-","1">>, <<"+","1">>, <<"0","x","1","0">>, <<"1","_","0">>, <<"0","0","7">>, <<"1",".","0">>}
      [] type = "uint64" -> {<<"1","8","4","4","6","7","4","4","0","7","3","7","0","9","5","5","1","6","1","5">>, <<"1","8","4","4","6","7","4","4","0","7","3","7","0","9","5","5","1","6","1","6">>, <<"-","1">>, <<"0","x","1","0">>, <<"0","0","7">>}
      [] type = "int64" -> {<<"9","2","2","3","3","7","2","0","3","6","8","5","4","7","7","5","8","0","7">>, <<"9","2","2","3","3","7","2","0","3","6","8","5","4","7","7","5","8","0","8">>, <<"-","9","2","2","3","3","7","2","0","3","6","8","5","4","7","7","5","8","0","8">>,
                            <<"-","9","2","2","3","3","7","2","0","3","6","8","5","4","7","7","5","8","0","9">>, <<"+","7">>, <<"-","0">>, <<"0","x","1","0">>, <<"1","e","3">>}

RangeRecords ==
    UNION {{Record(<<Leaf(Port, type, type, def)>>) : def \in RangeTexts(type)} :
              type \in {"uint", "uint64", "int64"}}

\* records with two leaves whose flag names come out the same: by the path,
\* and by the flag annotation
RepeatedNameRecords ==
    {Record(<<Leaf(<<"F","o","o","B","a","r">>, "int", "int", <<"1">>),
              Struct(<<"F","o","o">>, <<Leaf(<<"B","a","r">>, "int", "int", <<"2">>)>>)>>),
     Record(<<[Leaf(<<"H","o","s","t">>, "string", "string", <<"h">>) EXCEPT !.Tag.flag = <<"a","d","d","r">>],
              [Leaf(Port, "int", "int", <<"1">>) EXCEPT !.Tag.flag = <<"a","d","d","r">>]>>)}

WalkConfigs ==
    Configs \cup RangeRecords \cup RepeatedNameRecords \cup
    {Record(<<Leaf(<<"L","o","g","L","e","v","e","l">>, "string", "string", <<"d","e","b","u","g">>),
              Struct(<<"D","B">>, <<Leaf(Port, "uint", "uint", def)>>),
              Leaf(<<"V","e","r","b","o","s","e">>, "bool", "bool", <<"t","r","u","e">>)>>) : def \in {<<"1">>, <<"a">>}} \cup
    {Record(<<Leaf(Port, "slice", "act.IntSlice", <<"1",",","a">>),
              Leaf(<<"L","o","g","L","e","v","e","l">>, "string", "string", <<"d","e","b","u","g">>)>>)}

WalkArgvs(config) ==
    LET ls == Leaves(config.Fields, <<>>, <<>>)
        tokens == {<<"-","h">>, <<"-","-","h","e","l","p">>} \cup
                  {<<"-">> \o flagName(ls[i].sf, ls[i].prefix) \o <<"=">> \o Texts(ls[i].sf.Type)[3] :
                      i \in 1..Len(ls)}
    IN  UNION {[1..n -> tokens] : n \in 0..MaxArgs}

WalkCall ==
    /\ pc = "ready"
    /\ \E config \in WalkConfigs :
         \E env \in Envs(config), flags \in WalkArgvs(config) : ParseOn(config, env, flags)
    /\ pc' = "done"
    /\ UNCHANGED aloneVars

WalkNext == Construct \/ WalkCall

WalkSpec == Init /\ [][WalkNext]_vars

(***************************************************************************)
(* Properties of a finished call of Parse                                  *)
(***************************************************************************)
Done == pc = "done"

ReturnError == a.errorHandling = ContinueOnError

TerminateProcess == a.errorHandling = ExitOnError

AbortOnError == a.errorHandling = PanicOnError

HelpInArgv == \E i \in 1..Len(call.flags) : call.flags[i] \in HelpTokens

NotPointerToRecord == call.config.Kind # "ptr" \/ call.config.Elem # "struct"

NilTarget == call.config.Kind = "invalid" \/ (call.config.Kind = "ptr" /\ call.config.IsNil)

IsRecord == ~NotPointerToRecord /\ ~call.config.IsNil

CallLeaves ==
    LET ls == Leaves(call.config.Fields, <<>>, <<>>)
    IN  IF IsRecord THEN {ls[i] : i \in 1..Len(ls)} ELSE {}

Registered(l) == \E i \in 1..Len(formal) : formal[i].Path = l.path

\* the documented conversion of a baseline text to a value of the leaf type:
\* base-10 numbers, the empty text being the zero or empty value
Conversion(type, text) ==
    LET zero(v) == [val |-> v, err |-> nil]
    IN  CASE type = "bool" -> IF text = <<>> THEN zero(FALSE) ELSE ParseBool(text)
          [] type = "string" -> zero(text)
          [] type = "uint" -> IF text = <<>> THEN zero(Zero) ELSE ParseUint(text, 10, MaxUint32, <<>>, text)
          [] type = "uint64" -> IF text = <<>> THEN zero(Zero) ELSE ParseUint(text, 10, MaxUint64, <<>>, text)
          [] type \in {"int", "int64"} -> IF text = <<>> THEN zero(Zero) ELSE ParseInt(text, 10, <<>>)
          [] type = "float64" -> IF text = <<>> THEN zero(ZeroFloat) ELSE ParseFloat(text)
          [] type = "time.Duration" -> IF text = <<>> THEN zero(0) ELSE ParseDuration(text)
          [] type = "act.StringSlice" -> IF text = <<>> THEN zero(<<>>) ELSE zero(Split(text, ","))
          [] type = "act.IntSlice" -> IF text = <<>> THEN zero(<<>>) ELSE IntSliceLoop(Split(text, ","), <<>>)
          [] type = "act.URL" -> IF text = <<>> THEN zero(ZeroURL)
                                 ELSE [val |-> [URL |-> URLParse(text).val], err |-> URLParse(text).err]
          [] type = "act.Time" -> IF text = <<>> THEN zero(ZeroTime)
                                  ELSE [val |-> [Time |-> TimeParse(text).val], err |-> TimeParse(text).err]

Converted(type, text) == Conversion(type, text).val

\* the value the flag collaborator parses from the text of an occurrence
FlagConverted(type, text) ==
    IF type \in {"act.StringSlice", "act.IntSlice"} THEN Converted(type, text)
    ELSE ValueSet(type, Converted(type, <<>>), text).val

\* the flag name a token of argv spells: the text after one or two dashes, up
\* to the first "="
TokenName(tok) ==
    LET full == IF Len(tok) > 1 /\ tok[1] = "-"
                THEN IF tok[2] = "-" THEN SubSeq(tok, 3, Len(tok)) ELSE Tail(tok)
                ELSE <<>>
    IN  SubSeq(full, 1, SpanLen(full, {full[i] : i \in 1..Len(full)} \ {"="}))

FlagInArgv(l) == \E i \in 1..Len(call.flags) : TokenName(call.flags[i]) = flagName(l.sf, l.prefix)

EnvOf(l) == LookupEnv(call.env, envVarName(a, l.sf, l.prefix))

BaselineText(l) == IF EnvOf(l).ok THEN EnvOf(l).val ELSE l.sf.Tag.def

\* C1: under the return-error policy, with no help token in argv and no flag
\* for the field, a registered leaf holds the conversion of the environment
\* value when the lookup reports it found, and that of def otherwise (the
\* zero or empty value for an empty text)
C1_BaselineFromEnvThenDef ==
    (Done /\ ReturnError /\ ~HelpInArgv) =>
        \A l \in CallLeaves :
            (Registered(l) /\ ~FlagInArgv(l)) =>
                mem[l.path] = Converted(l.sf.Type, BaselineText(l))

C1_EnvOverDefReached ==
    /\ Done /\ ReturnError /\ ~HelpInArgv
    /\ \E l \in CallLeaves :
          /\ Registered(l) /\ ~FlagInArgv(l)
          /\ EnvOf(l).ok /\ EnvOf(l).val # <<>> /\ l.sf.Tag.def # <<>>
          /\ mem[l.path] = Converted(l.sf.Type, EnvOf(l).val)
          /\ mem[l.path] # Converted(l.sf.Type, l.sf.Tag.def)

\* the occurrences of a leaf's flag that the collaborator processed
Occurrences(l) == {i \in 1..Len(trace.actual) : trace.actual[i].Name = flagName(l.sf, l.prefix)}

LastText(l) == trace.actual[CHOOSE i \in Occurrences(l) : \A j \in Occurrences(l) : j <= i].Text

\* C2: after a Parse that returns without error, every leaf whose flag occurs
\* in argv holds the value parsed from the last occurrence of that flag,
\* whatever the environment value and def are
C2_FlagDominant ==
    (Done /\ end.kind = "return" /\ end.err = nil) =>
        \A l \in CallLeaves :
            Occurrences(l) # {} => mem[l.path] = FlagConverted(l.sf.Type, LastText(l))

C2_EmptyFlagKeepsBaseline ==
    /\ Done /\ end.kind = "return" /\ end.err = nil /\ ~HelpInArgv
    /\ \E l \in CallLeaves :
          /\ l.sf.Type = "act.StringSlice"
          /\ Occurrences(l) # {} /\ LastText(l) = <<>>
          /\ mem[l.path] = Converted(l.sf.Type, l.sf.Tag.def)
          /\ mem[l.path] # <<>>

\* C3: Parse on a target that is not a pointer, or a pointer to something
\* that is not a record, raises InvalidConfigType for every argv, returns it
\* under the return-error policy, registers no flag, looks up no environment
\* variable and leaves the target's memory as it was
C3_InvalidConfigType ==
    (Done /\ NotPointerToRecord) =>
        /\ trace.raised = ErrInvalidConfigType
        /\ ReturnError => end = [kind |-> "return", err |-> ErrInvalidConfigType, code |-> 0]
        /\ formal = <<>> /\ trace.lookups = <<>> /\ trace.actual = <<>>
        /\ mem = Memory(call.config)
        /\ ReturnError => output = <<>>

C3_RecordByValueWithHelpReached ==
    /\ Done /\ ReturnError /\ HelpInArgv
    /\ call.config.Kind = "struct" /\ call.config.Fields # <<>>
    /\ end.kind = "return" /\ end.err = ErrInvalidConfigType

\* C4: Parse on a nil target or on a nil pointer to a record type raises
\* InvalidConfigType, registers nothing and does not end in a runtime panic
C4_NilTargetRejected ==
    (Done /\ NilTarget) =>
        /\ trace.raised = ErrInvalidConfigType
        /\ formal = <<>>
        /\ ~(end.kind = "panic" /\ "runtime" \in end.err.is)

C4_NilPointerPanics ==
    /\ Done /\ ReturnError
    /\ call.config.Kind = "ptr" /\ call.config.Elem = "struct" /\ call.config.IsNil
    /\ end.kind = "panic" /\ "runtime" \in end.err.is
    /\ trace.raised = nil

\* a valid record: a pointer to a record whose leaves are all of supported
\* types and whose def texts all convert
ValidRecord ==
    /\ IsRecord
    /\ \A l \in CallLeaves :
          /\ <<l.sf.Kind, l.sf.Type>> \in SupportedTypes
          /\ Conversion(l.sf.Type, l.sf.Tag.def).err = nil

UsageWritten == \E i \in 1..Len(output) : output[i].kind = "usage"

\* C5: under the return-error policy, Parse with an argv of one help token
\* (-h, --h, -help, --help) on a valid record writes the usage text to the
\* output sink and returns no error
C5_HelpOnValidRecord ==
    (Done /\ ReturnError /\ ValidRecord /\ Len(call.flags) = 1 /\ HelpInArgv) =>
        /\ end = [kind |-> "return", err |-> nil, code |-> 0]
        /\ UsageWritten

C5_LeafNamedAsHelpToken ==
    /\ Done /\ ReturnError /\ ValidRecord /\ call.flags = <<<<"-","h">>>>
    /\ \E l \in CallLeaves : flagName(l.sf, l.prefix) = <<"h">> /\ Registered(l)
    /\ ~UsageWritten

\* the leaf a registered flag belongs to
LeafOf(f) == CHOOSE l \in CallLeaves : l.path = f.Path

\* C6: when argv holds a help token, the baseline of every registered leaf,
\* which usage shows as its default, is converted from def even when the
\* environment lookup reports a value, and no error is raised for the
\* environment value
C6_HelpUsesDef ==
    (Done /\ HelpInArgv) =>
        /\ \A i \in 1..Len(formal) :
              formal[i].DefValue =
                  ValueString(formal[i].Type, Converted(formal[i].Type, LeafOf(formal[i]).sf.Tag.def))
        /\ \A l \in CallLeaves :
              /\ (Registered(l) /\ ~FlagInArgv(l)) => mem[l.path] = Converted(l.sf.Type, l.sf.Tag.def)
              /\ ~HasPrefix(trace.raised.msg, l.sf.Name \o <<" ","e","n","v",":"," ">>)

C6_EnvIgnoredReached ==
    /\ Done /\ HelpInArgv /\ UsageWritten
    /\ \E l \in CallLeaves :
          /\ Registered(l) /\ EnvOf(l).ok /\ l.sf.Tag.def # <<>>
          /\ Conversion(l.sf.Type, EnvOf(l).val).err # nil
          /\ \E i \in 1..Len(formal) :
                /\ formal[i].Path = l.path
                /\ formal[i].DefValue = ValueString(l.sf.Type, Converted(l.sf.Type, l.sf.Tag.def))

HelpCondition == "ErrHelp" \in trace.raised.is

\* the last write to the output sink is a line that ends with the text
WroteLast(text) ==
    /\ output # <<>>
    /\ output[Len(output)].kind = "line"
    /\ LET t == output[Len(output)].text
       IN  Len(t) >= Len(text) /\ SubSeq(t, Len(t) - Len(text) + 1, Len(t)) = text

C8_PrefixIsCommandName ==
    (Done /\ TerminateProcess /\ end.kind = "exit" /\ end.code # 0) =>
        /\ output # <<>>
        /\ HasPrefix(output[Len(output)].text, a.name)

\* C8: under the terminate-process policy, the message written for a non-help
\* error is the text "act: " followed by the error's text, whatever command
\* name was given to New
C8_PrefixIsAct ==
    (Done /\ TerminateProcess /\ end.kind = "exit" /\ end.code # 0) =>
        /\ output # <<>>
        /\ output[Len(output)] = Line(<<"a","c","t",":"," ">> \o trace.raised.msg)

C8_MessageWrittenReached ==
    /\ Done /\ TerminateProcess /\ a.name = <<"c","o","o","l">>
    /\ end.kind = "exit" /\ end.code = 2
    /\ output # <<>> /\ HasPrefix(output[Len(output)].text, <<"a","c","t",":"," ">>)
    /\ trace.raised # ErrInvalidConfigType

\* C9: under the abort-on-error policy, every error raised by the walk or by
\* the collaborator's parse, the help condition included, ends Parse in a
\* panic that carries that error; Parse returns only when there was no error
C9_PanicOnError ==
    (Done /\ AbortOnError) =>
        /\ trace.raised # nil => end = [kind |-> "panic", err |-> trace.raised, code |-> 0]
        /\ end.kind \in {"return", "panic"}
        /\ end.kind = "return" => (trace.raised = nil /\ end.err = nil)

C9_HelpPanicsReached ==
    /\ Done /\ AbortOnError /\ HelpCondition
    /\ end.kind = "panic" /\ end.err = ErrHelp /\ UsageWritten

\* C10: under the return-error policy, Parse never exits and never panics:
\* every error but the help condition is returned unchanged, and nil is
\* returned only when no error occurred or the help condition was raised
C10_ContinueOnError ==
    (Done /\ ReturnError) =>
        /\ end.kind = "return"
        /\ (trace.raised # nil /\ ~HelpCondition) => end.err = trace.raised
        /\ end.err = nil => (trace.raised = nil \/ HelpCondition)

C10_PanicUnderReturnError ==
    /\ Done /\ ReturnError
    /\ end.kind = "panic" /\ "runtime" \in end.err.is

\* what holds of C10 for every call that does not panic below Parse
C10_ErrorsReturnedUnchanged ==
    (Done /\ ReturnError /\ end.kind # "panic") =>
        /\ end.kind = "return"
        /\ (trace.raised # nil /\ ~HelpCondition) => end.err = trace.raised
        /\ end.err = nil => (trace.raised = nil \/ HelpCondition)


(***************************************************************************)
(* Name derivation on its own: the names Act.parse computes for every leaf *)
(* of a record, for records nested up to MaxDepth deep                     *)
(***************************************************************************)
\* the deepest nesting of a leaf
MaxDepth == 3

\* the record whose one leaf sits at the field path, annotated with tag
RECURSIVE Nest(_, _)
Nest(path, tag) ==
    IF Len(path) = 1 THEN [Leaf(path[1], "string", "string", <<>>) EXCEPT !.Tag = tag]
    ELSE Struct(path[1], <<Nest(Tail(path), tag)>>)

\* the records named: under the command names cool and test, one leaf at a
\* field path of up to MaxDepth names, with and without the flag and env
\* annotations
Subjects ==
    LET FieldNames == {<<"M","o","n","g","o">>, <<"H","o","s","t","s">>, <<"L","o","g","L","e","v","e","l">>, <<"D","B">>, <<"N","u","m","b","e","r","1">>}
        Annotations == {[NoTag EXCEPT !.flag = fl, !.env = en] :
                            fl \in {<<>>, <<"f","o","o">>}, en \in {<<>>, <<"F","O","O">>}}
    IN  {[a |-> New(name, <<>>), path |-> path, tag |-> tag, fields |-> <<Nest(path, tag)>>] :
            name \in {<<"c","o","o","l">>, <<"t","e","s","t">>},
            path \in UNION {[1..n -> FieldNames] : n \in 1..MaxDepth},
            tag \in Annotations}

NameInit ==
    /\ pc = "new"
    /\ a = [name |-> <<>>, errorHandling |-> ExitOnError, help |-> FALSE]
    /\ formal = <<>>
    /\ output = <<>>
    /\ call = NoCall
    /\ mem = <<>>
    /\ trace = NoTrace
    /\ end = Running
    /\ recv = <<>>
    /\ ret = <<>>
    /\ subject \in Subjects
    /\ derived = <<>>

\* the loop of Act.parse over the record, as far as names go: for every leaf
\* it reaches, the flag name and the environment name it computes
Names(binder, ls) ==
    [i \in 1..Len(ls) |->
        [path |-> ls[i].path, flag |-> flagName(ls[i].sf, ls[i].prefix),
         env |-> envVarName(binder, ls[i].sf, ls[i].prefix)]]

DeriveNames ==
    /\ derived = <<>>
    /\ derived' = Names(subject.a, Leaves(subject.fields, <<>>, <<>>))
    /\ UNCHANGED <<recv, ret, subject>>
    /\ UNCHANGED binderVars

NameNext == DeriveNames

NameSpec == NameInit /\ [][NameNext]_vars

\* the names of the one leaf of the subject
Named == derived # <<>>

NamesOf == derived[1]

\* C11: with no annotation the flag name of a leaf at field path F1..Fn under
\* command name C is the kebab-case of F1-...-Fn and its environment name the
\* upper-snake-case of C_F1_..._Fn; a flag or env annotation on the leaf
\* replaces that name verbatim and leaves the other name derived
C11_NamesDerivedFromPath ==
    Named =>
        /\ NamesOf.flag = IF subject.tag.flag # <<>> THEN subject.tag.flag
                          ELSE ToKebab(Join(subject.path, <<"-">>))
        /\ NamesOf.env = IF subject.tag.env # <<>> THEN subject.tag.env
                         ELSE ToScreamingSnake(Join(<<subject.a.name>> \o subject.path, <<"_">>))

C11_MongoHostsUnderCool ==
    /\ Named /\ NamesOf.path = subject.path
    /\ subject.a.name = <<"c","o","o","l">> /\ subject.path = <<<<"M","o","n","g","o">>, <<"H","o","s","t","s">>>>
    /\ subject.tag.flag = <<>> /\ subject.tag.env = <<"F","O","O">>
    /\ NamesOf.flag = <<"m","o","n","g","o","-","h","o","s","t","s">> /\ NamesOf.env = <<"F","O","O">>

(***************************************************************************)
(* Properties of the walk over the record                                  *)
(***************************************************************************)
\* the leaves of the record of the call, in the order the walk reaches them
WalkLeaves == IF IsRecord THEN Leaves(call.config.Fields, <<>>, <<>>) ELSE <<>>

FromEnv(l) == EnvOf(l).ok /\ ~HelpInArgv

\* the text the walk takes as the baseline of a leaf
WalkText(l) == IF FromEnv(l) THEN EnvOf(l).val ELSE l.sf.Tag.def

Supported(l) == <<l.sf.Kind, l.sf.Type>> \in SupportedTypes

BaselineFails(l) == Supported(l) /\ Conversion(l.sf.Type, WalkText(l)).err # nil

\* the walk reaches leaf i with every leaf before it converted
FirstFailing(i) ==
    /\ i \in 1..Len(WalkLeaves)
    /\ BaselineFails(WalkLeaves[i])
    /\ \A j \in 1..(i - 1) : Supported(WalkLeaves[j]) /\ ~BaselineFails(WalkLeaves[j])

\* err is cause wrapped with the context "<name> <source>: ": the text
\* starts with the context and the chain of err holds that of cause
WrapsAs(err, name, source, cause) ==
    /\ HasPrefix(err.msg, name \o <<" ">> \o source \o <<":"," ">>)
    /\ Len(err.msg) > Len(name) + Len(source) + 3
    /\ cause.is \subseteq err.is

\* C12: a baseline text that fails to convert makes Parse raise the
\* conversion error wrapped as "<FieldName> env: <cause>" when the text came
\* from the environment (found, no help token in argv) and as
\* "<FieldName> def: <cause>" when it came from def, FieldName being the
\* leaf's own name also for a nested leaf; under the return-error policy
\* Parse returns that error
C12_BaselineFailureNamesSource ==
    Done =>
        \A i \in 1..Len(WalkLeaves) :
            FirstFailing(i) =>
                /\ WrapsAs(trace.raised, WalkLeaves[i].sf.Name,
                           IF FromEnv(WalkLeaves[i]) THEN <<"e","n","v">> ELSE <<"d","e","f">>,
                           Conversion(WalkLeaves[i].sf.Type, WalkText(WalkLeaves[i])).err)
                /\ ReturnError => (end.kind = "return" /\ end.err = trace.raised)

C12_NestedLeafEnvFailureReached ==
    /\ Done /\ ReturnError
    /\ \E i \in 1..Len(WalkLeaves) :
          /\ FirstFailing(i) /\ FromEnv(WalkLeaves[i])
          /\ Len(WalkLeaves[i].path) = 2 /\ WalkLeaves[i].sf.Tag.def # <<>>
          /\ Conversion(WalkLeaves[i].sf.Type, WalkLeaves[i].sf.Tag.def).err = nil
          /\ end.err.msg = <<"P","o","r","t"," ","e","n","v",":"," ","p","a","r","s","i","n","g"," ","u","i","n","t"," ","\"","4","2","9","4","9","6","7","2","9","6","\"",":"," ","s","t","r","c","o","n","v",".","P","a","r","s","e","U","i","n","t",":"," ","p","a","r","s","i","n","g"," ","\"","4","2","9","4","9","6","7","2","9","6","\"",":"," ","v","a","l","u","e"," ","o","u","t"," ","o","f"," ","r","a","n","g","e">>

\* a leaf of a kind Act.parseValue has no case for
UnsupportedKind(l) == l.sf.Kind \notin {t[1] : t \in SupportedTypes}

\* the walk reaches leaf i, of an unsupported kind, with every leaf before it
\* converted
FirstUnsupported(i) ==
    /\ i \in 1..Len(WalkLeaves)
    /\ UnsupportedKind(WalkLeaves[i])
    /\ \A j \in 1..(i - 1) : Supported(WalkLeaves[j]) /\ ~BaselineFails(WalkLeaves[j])

UnsupportedText(l, source) ==
    l.sf.Name \o <<" ">> \o source \o <<":"," ","p","a","r","s","i","n","g"," ","v","a","l","u","e",":"," ","t","y","p","e"," ","n","o","t"," ","s","u","p","p","o","r","t","e","d",":"," ">> \o GoText(l.sf.Kind)

\* C13: a leaf of an unsupported kind makes Parse raise the error
\* "<FieldName> def: parsing value: type not supported: <kind>" wrapping
\* UnsupportedType, for every argv and every environment
C13_UnsupportedKindSaysDef ==
    Done =>
        \A i \in 1..Len(WalkLeaves) :
            FirstUnsupported(i) =>
                /\ trace.raised.msg = UnsupportedText(WalkLeaves[i], <<"d","e","f">>)
                /\ "ErrUnsupportedType" \in trace.raised.is

\* with the variable of the leaf found in the environment the same error
\* names the environment as its source
C13_UnsupportedKindSaysEnv ==
    /\ Done /\ ReturnError /\ ~HelpInArgv
    /\ \E i \in 1..Len(WalkLeaves) :
          /\ FirstUnsupported(i) /\ WalkLeaves[i].sf.Kind = "int16" /\ EnvOf(WalkLeaves[i]).ok
          /\ end.err.msg = <<"P","o","r","t"," ","e","n","v",":"," ","p","a","r","s","i","n","g"," ","v","a","l","u","e",":"," ","t","y","p","e"," ","n","o","t"," ","s","u","p","p","o","r","t","e","d",":"," ","i","n","t","1","6">>
          /\ "ErrUnsupportedType" \in end.err.is

\* the error of an unsupported kind names the source the walk read: env when
\* the variable is found and argv holds no help token, def otherwise
C13_UnsupportedKindNamesSource ==
    Done =>
        \A i \in 1..Len(WalkLeaves) :
            FirstUnsupported(i) =>
                /\ trace.raised.msg = UnsupportedText(WalkLeaves[i],
                                          IF FromEnv(WalkLeaves[i]) THEN <<"e","n","v">> ELSE <<"d","e","f">>)
                /\ "ErrUnsupportedType" \in trace.raised.is

\* the walk stops at leaf i: its baseline does not convert, or its kind is
\* not supported
StopsAt(i) == FirstFailing(i) \/ FirstUnsupported(i)

\* C20: when the baseline of a leaf fails during the walk, the walk stops at
\* that leaf: the leaves before it in depth-first declaration order are
\* registered and hold their baseline, the failing leaf and every leaf after
\* it are not registered and hold the value the caller passed in, and the
\* flag collaborator does not parse argv, so no flag of argv is applied and,
\* under the return-error policy, nothing is written
C20_FailFastWalk ==
    Done =>
        \A i \in 1..Len(WalkLeaves) :
            StopsAt(i) =>
                /\ \A j \in 1..(i - 1) :
                      /\ Registered(WalkLeaves[j])
                      /\ mem[WalkLeaves[j].path] = Converted(WalkLeaves[j].sf.Type, WalkText(WalkLeaves[j]))
                /\ \A j \in i..Len(WalkLeaves) :
                      /\ ~Registered(WalkLeaves[j])
                      /\ mem[WalkLeaves[j].path] = CallerValue(WalkLeaves[j].sf.Type)
                /\ Len(formal) = i - 1
                /\ trace.actual = <<>>
                /\ ReturnError => output = <<>>

C20_StoppedBetweenLeavesReached ==
    /\ Done /\ ReturnError /\ ~HelpInArgv
    /\ Len(WalkLeaves) = 3 /\ FirstFailing(2) /\ Len(WalkLeaves[2].path) = 2
    /\ \E k \in 1..Len(call.flags) : \E j \in {1, 3} : TokenName(call.flags[k]) = flagName(WalkLeaves[j].sf, WalkLeaves[j].prefix)
    /\ Len(formal) = 1 /\ formal[1].Name = <<"l","o","g","-","l","e","v","e","l">>
    /\ mem[WalkLeaves[1].path] = <<"d","e","b","u","g">>
    /\ mem[WalkLeaves[3].path] = CallerValue("bool")
    /\ end.kind = "return" /\ end.err # nil

(***************************************************************************)
(* The value adapters used on their own, through a pointer that may be nil *)
(***************************************************************************)
\* the most method calls made on one adapter
MaxCalls == 3

\* the zero value of an adapter type: an empty list, no URL, no time
ZeroValue(type) ==
    CASE type \in {"act.StringSlice", "act.IntSlice"} -> <<>>
      [] type = "act.URL" -> ZeroURL
      [] type = "act.Time" -> ZeroTime

\* (*T)(nil) and &T{} for the four types
Receivers ==
    {[type |-> t, isNil |-> n, val |-> ZeroValue(t)] :
        t \in {"act.StringSlice", "act.IntSlice", "act.URL", "act.Time"}, n \in BOOLEAN}

\* the texts Set is called with
SetTexts(type) ==
    CASE type = "act.StringSlice" ->
            {<<>>, <<"f","o","o">>, <<"f","o","o",",","b","a","r",",","b","a","z">>, <<",">>, <<"a",",",",","b">>, <<"i","t","'","s",",","'">>}
      [] type = "act.IntSlice" ->
            {<<>>, <<"7">>, <<"1","0",",","-","5",",","0">>, <<"+","3",",","4">>, <<"a">>, <<"a",",","1">>, <<"1",",","a">>, <<"1",",",",","2">>, <<"1",","," ","2">>, <<"1",",","2",",","0","x","3">>}
      [] type = "act.URL" ->
            {<<>>, <<"f","o","o",".","b","a","r">>, <<"/","/","f","o","o",".","b","a","r">>, <<"h","t","t","p","s",":","/","/","f","o","o",".","b","a","r","/","b","a","z">>, <<"%">>, <<"a",":","b","/","c">>, <<"x","/","a",":","b">>, <<":">>}
      [] type = "act.Time" ->
            {<<>>, <<"2","0","0","2","-","1","0","-","0","2","T","1","5",":","0","0",":","0","0","Z">>, <<"2","0","0","2","-","1","0","-","0","2","T","1","0",":","0","0",":","0","0","-","0","5",":","0","0">>, <<"2","0","0","2","-","1","0","-","0","2","T","1","5",":","0","0",":","0","0",".","0","5","Z">>,
             <<"2","0","0","2","-","1","0","-","0","2","T","1","5",":","0","0",":","0","0","+","0","0",":","0","0">>, <<"2","0","0","2","-","1","0","-","0","2","T","1","5",":","0","0",":","0","0",".","5","+","0","5",":","3","0">>, <<"2","0","0","2","-","0","2","-","3","0","T","1","5",":","0","0",":","0","0","Z">>,
             <<"2","0","0","2","-","1","0","-","0","2">>, <<"a">>}

\* a nil pointer dereference
nilDereference == <<"r","u","n","t","i","m","e"," ","e","r","r","o","r",":"," ","i","n","v","a","l","i","d"," ","m","e","m","o","r","y"," ","a","d","d","r","e","s","s"," ","o","r"," ","n","i","l"," ","p","o","i","n","t","e","r"," ","d","e","r","e","f","e","r","e","n","c","e">>

\* a String that reads through the pointer without testing it (C17 tells
\* String from it)
StringUnguarded(p) == ValueString(p.type, p.val)

\* f.Set(s) through the pointer p: the lists return before they touch *f
\* when s is empty, URL and Time return the error of the parse before they
\* touch f
Set(p, s) ==
    LET raised == [recv |-> p, err |-> nil, panic |-> nilDereference]
        assigned(r) ==
            IF p.type \in {"act.StringSlice", "act.IntSlice"}
            THEN IF s # <<>> /\ p.isNil THEN raised
                 ELSE [recv |-> [p EXCEPT !.val = r.val], err |-> r.err, panic |-> <<>>]
            ELSE IF r.err # nil THEN [recv |-> p, err |-> r.err, panic |-> <<>>]
                 ELSE IF p.isNil THEN raised
                 ELSE [recv |-> [p EXCEPT !.val = r.val], err |-> nil, panic |-> <<>>]
    IN  assigned(ValueSet(p.type, p.val, s))

\* f.String() through the pointer p
String(p) == IF p.isNil THEN <<>> ELSE ValueString(p.type, p.val)

\* f.Get() through the pointer p: *f, *f.URL or *f.Time
Get(p) ==
    IF p.isNil THEN [out |-> <<>>, panic |-> nilDereference]
    ELSE IF p.type = "act.URL"
    THEN IF p.val.URL.set THEN [out |-> p.val.URL, panic |-> <<>>] ELSE [out |-> <<>>, panic |-> nilDereference]
    ELSE IF p.type = "act.Time"
    THEN IF p.val.Time.set THEN [out |-> p.val.Time, panic |-> <<>>] ELSE [out |-> <<>>, panic |-> nilDereference]
    ELSE [out |-> p.val, panic |-> <<>>]

NoRet == [n |-> 0, op |-> "none", arg |-> <<>>, before |-> <<>>, err |-> nil, out |-> <<>>, panic |-> <<>>]

AdapterInit ==
    /\ pc = "new"
    /\ a = [name |-> <<>>, errorHandling |-> ExitOnError, help |-> FALSE]
    /\ formal = <<>>
    /\ output = <<>>
    /\ call = NoCall
    /\ mem = <<>>
    /\ trace = NoTrace
    /\ end = Running
    /\ recv \in Receivers
    /\ ret = NoRet
    /\ subject = <<>>
    /\ derived = <<>>

\* a method can be called while no call has panicked
Callable == ret.panic = <<>> /\ ret.n < MaxCalls

\* err := f.Set(s)
SetCall ==
    /\ Callable
    /\ \E s \in SetTexts(recv.type) :
         \E r \in {Set(recv, s)} :
            /\ recv' = r.recv
            /\ ret' = [n |-> ret.n + 1, op |-> "Set", arg |-> s, before |-> recv.val, err |-> r.err,
                       out |-> <<>>, panic |-> r.panic]
    /\ UNCHANGED <<subject, derived>>
    /\ UNCHANGED binderVars

\* text := f.String()
StringCall ==
    /\ Callable
    /\ ret' = [n |-> ret.n + 1, op |-> "String", arg |-> <<>>, before |-> recv.val, err |-> nil,
               out |-> String(recv), panic |-> <<>>]
    /\ UNCHANGED <<recv, subject, derived>>
    /\ UNCHANGED binderVars

\* v := f.Get()
GetCall ==
    /\ Callable
    /\ \E r \in {Get(recv)} :
          ret' = [n |-> ret.n + 1, op |-> "Get", arg |-> <<>>, before |-> recv.val, err |-> nil,
                  out |-> r.out, panic |-> r.panic]
    /\ UNCHANGED <<recv, subject, derived>>
    /\ UNCHANGED binderVars

AdapterNext == SetCall \/ StringCall \/ GetCall

AdapterSpec == AdapterInit /\ [][AdapterNext]_vars

(***************************************************************************)
(* Properties of the adapters                                              *)
(***************************************************************************)
\* Set has just returned on an adapter of the type, reached through a
\* pointer that is not nil
SetReturned(type) == ret.op = "Set" /\ recv.type = type /\ ~recv.isNil /\ ret.panic = <<>>

\* an optional sign followed by decimal digits
Base10Signed(tok) ==
    LET digits(d) == d # <<>> /\ IsDigits(d)
    IN  digits(IF tok # <<>> /\ tok[1] \in {"+", "-"} THEN Tail(tok) ELSE tok)

BadIntToken(s) == \E i \in 1..Len(Split(s, ",")) : ~Base10Signed(Split(s, ",")[i])

\* C14: IntSlice.Set never commits a partial list: for a non-empty text with
\* a token that is not a base-10 signed integer, wherever the token sits and
\* whatever the list held, Set returns an error and Get then returns the
\* empty sequence
C14_IntListNoPartialCommit ==
    (SetReturned("act.IntSlice") /\ ret.arg # <<>> /\ BadIntToken(ret.arg)) =>
        /\ ret.err # nil
        /\ Get(recv) = [out |-> <<>>, panic |-> <<>>]

C14_FilledListEmptiedReached ==
    /\ SetReturned("act.IntSlice")
    /\ Len(ret.before) = 3 /\ ret.arg = <<"1",",","a">>
    /\ ret.err.msg = <<"p","a","r","s","i","n","g"," ","i","n","t",":"," ","s","t","r","c","o","n","v",".","A","t","o","i",":"," ","p","a","r","s","i","n","g"," ","\"","a","\"",":"," ","i","n","v","a","l","i","d"," ","s","y","n","t","a","x">>
    /\ recv.val = <<>>

Commas(s) == Cardinality({i \in 1..Len(s) : s[i] = ","})

\* the display of a list of texts: every element in single quotes, commas
\* between them, brackets around
RECURSIVE QuotedList(_)
QuotedList(ss) ==
    IF ss = <<>> THEN <<>>
    ELSE <<"'">> \o Head(ss) \o <<"'">> \o (IF Len(ss) > 1 THEN <<",">> ELSE <<>>) \o QuotedList(Tail(ss))

\* C15: for every non-empty text s StringSlice.Set(s) succeeds and Get then
\* returns the segments of s between its commas, in order and unescaped (one
\* more than the commas, empty segments kept), and String shows them in
\* single quotes, joined by commas, in brackets
C15_StringListSplitsOnCommas ==
    (SetReturned("act.StringSlice") /\ ret.arg # <<>>) =>
        /\ ret.err = nil
        /\ Get(recv).panic = <<>>
        /\ Len(Get(recv).out) = 1 + Commas(ret.arg)
        /\ \A i \in 1..Len(Get(recv).out) : Commas(Get(recv).out[i]) = 0
        /\ Join(Get(recv).out, <<",">>) = ret.arg
        /\ String(recv) = <<"[">> \o QuotedList(Get(recv).out) \o <<"]">>

C15_FooBarBazOverOldListReached ==
    /\ SetReturned("act.StringSlice")
    /\ ret.before # <<>> /\ ret.arg = <<"f","o","o",",","b","a","r",",","b","a","z">>
    /\ Get(recv).out = <<<<"f","o","o">>, <<"b","a","r">>, <<"b","a","z">>>>
    /\ String(recv) = <<"[","'","f","o","o","'",",","'","b","a","r","'",",","'","b","a","z","'","]">>

\* the texts of RFC 3339 (upper-case T and Z, no leap second): a date, T, a
\* time of day, an optional fraction, and Z or a numeric offset
ValidRFC3339(s) ==
    LET nf == IF Len(s) > 20 /\ s[20] = "." THEN SpanLen(SubSeq(s, 21, Len(s)), Digit) ELSE 0
        zone(z) == \/ z = <<"Z">>
                   \/ /\ Len(z) = 6 /\ z[1] \in {"+", "-"} /\ z[4] = ":"
                      /\ IsDigits(<<z[2], z[3], z[5], z[6]>>)
                      /\ DecVal(<<z[2], z[3]>>) < 24 /\ DecVal(<<z[5], z[6]>>) < 60
    IN  /\ Len(s) >= 20
        /\ s[5] = "-" /\ s[8] = "-" /\ s[11] = "T" /\ s[14] = ":" /\ s[17] = ":"
        /\ IsDigits(SubSeq(s, 1, 4) \o SubSeq(s, 6, 7) \o SubSeq(s, 9, 10)
                    \o SubSeq(s, 12, 13) \o SubSeq(s, 15, 16) \o SubSeq(s, 18, 19))
        /\ DecVal(SubSeq(s, 6, 7)) \in 1..12
        /\ DecVal(SubSeq(s, 9, 10)) \in 1..DaysIn(DecVal(SubSeq(s, 6, 7)), DecVal(SubSeq(s, 1, 4)))
        /\ DecVal(SubSeq(s, 12, 13)) < 24 /\ DecVal(SubSeq(s, 15, 16)) < 60 /\ DecVal(SubSeq(s, 18, 19)) < 60
        /\ (s[20] = "." => nf > 0)
        /\ zone(SubSeq(s, IF nf > 0 THEN 21 + nf ELSE 20, Len(s)))

\* the digits of the fraction of a valid text, and the text without them
FractionOf(s) == IF s[20] = "." THEN SubSeq(s, 21, 20 + SpanLen(SubSeq(s, 21, Len(s)), Digit)) ELSE <<>>

WithoutFraction(s) ==
    SubSeq(s, 1, 19) \o SubSeq(s, 20 + (IF s[20] = "." THEN 1 + Len(FractionOf(s)) ELSE 0), Len(s))

\* C16: for every valid RFC 3339 text s without a fraction of a second
\* Time.Set(s) succeeds and String() returns s; for a valid text with a
\* fraction String() returns the text without the fraction while Get returns
\* the instant with the fraction
C16_TimestampRoundTrip ==
    (SetReturned("act.Time") /\ ValidRFC3339(ret.arg)) =>
        /\ ret.err = nil
        /\ String(recv) = WithoutFraction(ret.arg)
        /\ Get(recv).panic = <<>>
        /\ Get(recv).out.frac = StripTrailingZeros(FractionOf(ret.arg))

\* a zero offset written +00:00 comes back as Z
C16_ZeroOffsetComesBackAsZ ==
    /\ SetReturned("act.Time")
    /\ ret.arg = <<"2","0","0","2","-","1","0","-","0","2","T","1","5",":","0","0",":","0","0","+","0","0",":","0","0">> /\ ValidRFC3339(ret.arg)
    /\ ret.err = nil
    /\ String(recv) = <<"2","0","0","2","-","1","0","-","0","2","T","1","5",":","0","0",":","0","0","Z">>

\* the round trip holds for the texts whose offset is Z or not zero
C16_RoundTripButZeroOffset ==
    (/\ SetReturned("act.Time") /\ ValidRFC3339(ret.arg)
     /\ SubSeq(ret.arg, Len(ret.arg) - 5, Len(ret.arg)) \notin {<<"+","0","0",":","0","0">>, <<"-","0","0",":","0","0">>}) =>
        /\ ret.err = nil
        /\ String(recv) = WithoutFraction(ret.arg)
        /\ Get(recv).panic = <<>>
        /\ Get(recv).out.frac = StripTrailingZeros(FractionOf(ret.arg))

\* an instance with no value in it: a nil pointer, an empty list, an adapter
\* without URL or time
Uninitialized(p) == p.isNil \/ p.val = ZeroValue(p.type)

\* C17 as stated: String() on each of the four adapters never fails on a
\* nil, zero or empty instance and returns the empty text for it
C17_StringOfEmptyIsEmptyText ==
    (ret.op = "String" /\ Uninitialized(recv)) =>
        /\ ret.panic = <<>>
        /\ ret.out = <<>>

\* C17: String() never fails on a nil, zero or empty instance: it returns
\* the empty text for a nil pointer and for a URL or Time without value, and
\* [] for an empty list behind a pointer that is not nil
C17_StringOfEmptyListIsBrackets ==
    (ret.op = "String" /\ Uninitialized(recv)) =>
        /\ ret.panic = <<>>
        /\ ret.out = IF ~recv.isNil /\ recv.type \in {"act.StringSlice", "act.IntSlice"}
                     THEN <<"[","]">> ELSE <<>>

C17_EmptiedIntListShowsBrackets ==
    /\ ret.op = "String" /\ ret.n = 3
    /\ recv.type = "act.IntSlice" /\ ~recv.isNil /\ recv.val = <<>>
    /\ ret.out = <<"[","]">> /\ ret.panic = <<>>

\* C18: URL.Set and Time.Set leave the adapter at its zero value (it shows as
\* the empty text) whenever the text is empty or fails to parse, also when
\* the adapter held a value from an earlier Set; after a successful Set of a
\* non-empty text the adapter holds the value parsed from that text
C18_SingleValueResetOnFailure ==
    \A type \in {"act.URL", "act.Time"} :
        SetReturned(type) =>
            /\ (ret.arg = <<>> \/ ret.err # nil) => String(recv) = <<>>
            /\ (ret.arg # <<>> /\ ret.err = nil) => recv.val = Converted(type, ret.arg)

C18_FailedSetKeepsOldURL ==
    /\ SetReturned("act.URL")
    /\ ret.before = Converted("act.URL", <<"h","t","t","p","s",":","/","/","f","o","o",".","b","a","r","/","b","a","z">>)
    /\ ret.arg = <<"%">> /\ ret.err # nil
    /\ recv.val = ret.before
    /\ String(recv) = <<"h","t","t","p","s",":","/","/","f","o","o",".","b","a","r","/","b","a","z">>

\* what does hold: a Set that fails leaves the adapter as it was, a Set that
\* succeeds leaves the value parsed from the text
C18_FailedSetChangesNothing ==
    \A type \in {"act.URL", "act.Time"} :
        SetReturned(type) =>
            /\ ret.err # nil => recv.val = ret.before
            /\ ret.err = nil => recv.val = IF type = "act.URL" THEN [URL |-> URLParse(ret.arg).val]
                                           ELSE [Time |-> TimeParse(ret.arg).val]

\* the URL url.Parse returns for the empty text
EmptyURL == [set |-> TRUE, Scheme |-> <<>>, Opaque |-> <<>>, Host |-> <<>>, Path |-> <<>>, OmitHost |-> FALSE]

\* C19: through a pointer that is not nil, Set("") returns no error and
\* changes nothing for StringSlice and IntSlice (a fresh list stays the empty
\* sequence), returns an error for Time, and returns no error for URL,
\* leaving a URL that shows as the empty text and whose Get is the zero URL
C19_SetOfEmptyText ==
    (ret.op = "Set" /\ ret.arg = <<>> /\ ~recv.isNil) =>
        /\ ret.panic = <<>>
        /\ recv.type \in {"act.StringSlice", "act.IntSlice"} =>
              /\ ret.err = nil /\ recv.val = ret.before
              /\ ret.n = 1 => Get(recv) = [out |-> <<>>, panic |-> <<>>]
        /\ recv.type = "act.Time" => ret.err # nil
        /\ recv.type = "act.URL" =>
              /\ ret.err = nil
              /\ String(recv) = <<>>
              /\ Get(recv) = [out |-> EmptyURL, panic |-> <<>>]

C19_FilledListKeptReached ==
    /\ ret.op = "Set" /\ ret.arg = <<>> /\ ~recv.isNil
    /\ recv.type = "act.StringSlice"
    /\ ret.err = nil /\ ret.before = <<<<"f","o","o">>>> /\ recv.val = <<<<"f","o","o">>>>

(***************************************************************************)
(* Registration of the leaves, and the baseline the walk gives them        *)
(***************************************************************************)
\* the walk over the record of the call reaches its end: every leaf is of a
\* supported type, its baseline converts, and no flag name is taken twice
WalkCompletes ==
    /\ IsRecord
    /\ \A i \in 1..Len(WalkLeaves) : Supported(WalkLeaves[i]) /\ ~BaselineFails(WalkLeaves[i])
    /\ \A i, j \in 1..Len(WalkLeaves) :
          i # j => flagName(WalkLeaves[i].sf, WalkLeaves[i].prefix) # flagName(WalkLeaves[j].sf, WalkLeaves[j].prefix)

NotDefined(name) == <<"f","l","a","g"," ","p","r","o","v","i","d","e","d"," ","b","u","t"," ","n","o","t"," ","d","e","f","i","n","e","d",":"," ","-">> \o name

\* C21: in a Parse call whose walk completes, the flags registered are those
\* of the leaves (fields that are not records, and URL and Time fields) at
\* every depth, each once, in depth-first declaration order; the environment
\* is looked up for the leaves only, in the same order; and the
\* registration comes before the collaborator parses argv, which therefore
\* never reports the flag of a leaf as not defined
C21_LeavesRegisteredOnceInOrder ==
    (Done /\ WalkCompletes) =>
        /\ Len(formal) = Len(WalkLeaves)
        /\ \A i \in 1..Len(WalkLeaves) :
              /\ formal[i].Path = WalkLeaves[i].path
              /\ formal[i].Name = flagName(WalkLeaves[i].sf, WalkLeaves[i].prefix)
              /\ trace.raised = nil \/ trace.raised.msg # NotDefined(formal[i].Name)
        /\ trace.lookups = [i \in 1..Len(WalkLeaves) |->
                               envVarName(a, WalkLeaves[i].sf, WalkLeaves[i].prefix)]

C21_NestedAndLastLeafReached ==
    /\ Done /\ WalkCompletes /\ Len(WalkLeaves) = 3
    /\ [i \in 1..3 |-> formal[i].Name] = <<<<"l","o","g","-","l","e","v","e","l">>, <<"d","b","-","p","o","r","t">>, <<"v","e","r","b","o","s","e">>>>
    /\ trace.lookups = <<<<"T","E","S","T","_","L","O","G","_","L","E","V","E","L">>, <<"T","E","S","T","_","D","B","_","P","O","R","T">>, <<"T","E","S","T","_","V","E","R","B","O","S","E">>>>
    /\ \E k \in 1..Len(trace.actual) : trace.actual[k].Name = <<"v","e","r","b","o","s","e">>
    /\ mem[WalkLeaves[3].path] = FALSE

\* the call ended with no error raised and no panic
EndedClean == Done /\ end.kind = "return" /\ trace.raised = nil

\* C22: the environment is ignored only while help text is produced: when
\* the collaborator's parse does not raise the help condition, also with a
\* help-like token after the terminator "--", after a positional argument or
\* as the value of another flag, every leaf found in the environment whose
\* flag is not in argv holds the value converted from the environment
C22_EnvIgnoredOnlyForHelp ==
    (EndedClean /\ ~HelpCondition) =>
        \A l \in CallLeaves :
            (Registered(l) /\ EnvOf(l).ok /\ ~FlagInArgv(l)) =>
                mem[l.path] = Converted(l.sf.Type, EnvOf(l).val)

\* a help token after the terminator: no help is produced, and the leaf
\* holds def instead of the environment value
C22_HelpTokenAfterTerminatorDropsEnv ==
    /\ EndedClean /\ ReturnError /\ ~UsageWritten
    /\ call.flags = <<<<"-","-">>, <<"-","h">>>>
    /\ \E l \in CallLeaves :
          /\ l.sf.Type = "uint" /\ l.sf.Tag.def = <<"1">> /\ EnvOf(l) = [val |-> <<"2">>, ok |-> TRUE]
          /\ Registered(l)
          /\ mem[l.path] = Converted("uint", <<"1">>)
          /\ mem[l.path] # Converted("uint", <<"2">>)

\* the limit of a numeric type, as a magnitude
Limit(type, neg) ==
    CASE type = "uint" -> <<"4","2","9","4","9","6","7","2","9","5">>
      [] type = "uint64" -> <<"1","8","4","4","6","7","4","4","0","7","3","7","0","9","5","5","1","6","1","5">>
      [] type = "int64" -> IF neg THEN <<"9","2","2","3","3","7","2","0","3","6","8","5","4","7","7","5","8","0","8">> ELSE <<"9","2","2","3","3","7","2","0","3","6","8","5","4","7","7","5","8","0","7">>

\* the digits of a base-10 text of the type: decimal digits, for int64 after
\* an optional sign
DigitsOf(type, text) ==
    IF type = "int64" /\ text # <<>> /\ text[1] \in {"+", "-"} THEN Tail(text) ELSE text

Negative(type, text) == type = "int64" /\ text # <<>> /\ text[1] = "-"

\* the text is a base-10 number within the range of the type
InRange(type, text) ==
    /\ DigitsOf(type, text) # <<>>
    /\ IsDigits(DigitsOf(type, text))
    /\ MagLeq(StripZeros(DigitsOf(type, text)), Limit(type, Negative(type, text)))

\* the number a base-10 text stands for
NumberOf(type, text) ==
    [neg |-> Negative(type, text) /\ StripZeros(DigitsOf(type, text)) # <<"0">>,
     mag |-> StripZeros(DigitsOf(type, text))]

\* the walk reaches leaf i: every leaf before it converted
Reaches(i) ==
    /\ i \in 1..Len(WalkLeaves)
    /\ \A j \in 1..(i - 1) : Supported(WalkLeaves[j]) /\ ~BaselineFails(WalkLeaves[j])

\* C23: the baseline of a uint, uint64 or int64 leaf is range-checked and
\* stored as the number it stands for, never wrapped or truncated: the
\* empty text gives 0, a base-10 text within 0..2^32-1, 0..2^64-1 or
\* -2^63..2^63-1 gives its number, and every other text makes Parse raise
\* the parse error of that field, naming it, with the leaf left unregistered
\* and unwritten
C23_NumericBaselineRangeChecked ==
    Done =>
        \A i \in 1..Len(WalkLeaves) :
            (Reaches(i) /\ Supported(WalkLeaves[i]) /\ WalkLeaves[i].sf.Type \in {"uint", "uint64", "int64"}) =>
                IF WalkText(WalkLeaves[i]) = <<>> \/ InRange(WalkLeaves[i].sf.Type, WalkText(WalkLeaves[i]))
                THEN /\ Registered(WalkLeaves[i])
                     /\ formal[i].DefValue =
                           FormatInt(IF WalkText(WalkLeaves[i]) = <<>> THEN Zero
                                     ELSE NumberOf(WalkLeaves[i].sf.Type, WalkText(WalkLeaves[i])))
                     /\ trace.actual = <<>> =>
                           mem[WalkLeaves[i].path] =
                              IF WalkText(WalkLeaves[i]) = <<>> THEN Zero
                              ELSE NumberOf(WalkLeaves[i].sf.Type, WalkText(WalkLeaves[i]))
                ELSE /\ ~Registered(WalkLeaves[i])
                     /\ mem[WalkLeaves[i].path] = CallerValue(WalkLeaves[i].sf.Type)
                     /\ HasPrefix(trace.raised.msg,
                                  WalkLeaves[i].sf.Name
                                  \o (IF FromEnv(WalkLeaves[i]) THEN <<" ","e","n","v",":"," ","p","a","r","s","i","n","g"," ">> ELSE <<" ","d","e","f",":"," ","p","a","r","s","i","n","g"," ">>)
                                  \o GoText(WalkLeaves[i].sf.Type) \o <<" ">> \o Quote(WalkText(WalkLeaves[i])))
                     /\ trace.raised.is \cap {"strconv.ErrSyntax", "strconv.ErrRange"} # {}

C23_OneBeyondUint32Rejected ==
    /\ Done /\ ReturnError /\ Len(WalkLeaves) = 1
    /\ WalkLeaves[1].sf.Type = "uint" /\ WalkText(WalkLeaves[1]) = <<"4","2","9","4","9","6","7","2","9","6">>
    /\ ~FromEnv(WalkLeaves[1])
    /\ formal = <<>> /\ mem[WalkLeaves[1].path] = CallerValue("uint")
    /\ end.err.msg = <<"P","o","r","t"," ","d","e","f",":"," ","p","a","r","s","i","n","g"," ","u","i","n","t"," ","\"","4","2","9","4","9","6","7","2","9","6","\"",":"," ","s","t","r","c","o","n","v",".","P","a","r","s","e","U","i","n","t",":"," ","p","a","r","s","i","n","g"," ","\"","4","2","9","4","9","6","7","2","9","6","\"",":"," ","v","a","l","u","e"," ","o","u","t"," ","o","f"," ","r","a","n","g","e">>

\* C24: a leaf whose type is outside the dispatch table makes Parse raise an
\* error wrapping UnsupportedType, returned under the return-error policy,
\* and never ends the call with a panic of the runtime; this holds for a
\* slice other than StringSlice and IntSlice, for a pointer field, and for a
\* named type whose underlying kind is one of the table
C24_UnsupportedTypeNeverAborts ==
    Done =>
        \A i \in 1..Len(WalkLeaves) :
            (Reaches(i) /\ ~Supported(WalkLeaves[i])) =>
                /\ "ErrUnsupportedType" \in trace.raised.is
                /\ ~(end.kind = "panic" /\ "runtime" \in end.err.is)
                /\ ReturnError => (end.kind = "return" /\ end.err = trace.raised)

\* a field of a named type whose kind is bool: the type assertion on the
\* pointer panics
C24_NamedBoolPanics ==
    /\ Done /\ ReturnError /\ Len(WalkLeaves) = 1
    /\ WalkLeaves[1].sf.Kind = "bool" /\ WalkLeaves[1].sf.Type = "main.MyBool"
    /\ trace.raised = nil
    /\ end.kind = "panic"
    /\ end.err.msg = <<"i","n","t","e","r","f","a","c","e"," ","c","o","n","v","e","r","s","i","o","n",":"," ","i","n","t","e","r","f","a","c","e"," ","{","}"," ","i","s"," ","*","m","a","i","n",".","M","y","B","o","o","l",","," ","n","o","t"," ","*","b","o","o","l">>

\* the kinds parseValue switches on with a plain type assertion
AssertedKinds == {"bool", "string", "uint", "uint64", "int", "float64"}

\* what holds of C24: the error is raised for every unsupported leaf whose
\* kind parseValue does not assert a pointer type for
C24_UnsupportedWhereNotAsserted ==
    Done =>
        \A i \in 1..Len(WalkLeaves) :
            (Reaches(i) /\ ~Supported(WalkLeaves[i]) /\ WalkLeaves[i].sf.Kind \notin AssertedKinds) =>
                /\ "ErrUnsupportedType" \in trace.raised.is
                /\ ~(end.kind = "panic" /\ "runtime" \in end.err.is)
                /\ ReturnError => (end.kind = "return" /\ end.err = trace.raised)

\* the walk accepts the record of the call: every leaf is of a supported
\* type and its baseline converts
Accepted ==
    /\ IsRecord
    /\ \A i \in 1..Len(WalkLeaves) : Supported(WalkLeaves[i]) /\ ~BaselineFails(WalkLeaves[i])

NameAt(i) == flagName(WalkLeaves[i].sf, WalkLeaves[i].prefix)

RuntimePanic == end.kind = "panic" /\ "runtime" \in end.err.is

\* C25: in one Parse call no two leaves are registered under the same flag
\* name: for every record the walk accepts, leaves at distinct paths have
\* distinct flag names, so no registration finds its name taken and the
\* call does not panic
C25_FlagNamesPairwiseDistinct ==
    (Done /\ Accepted) =>
        /\ \A i, j \in 1..Len(WalkLeaves) : i # j => NameAt(i) # NameAt(j)
        /\ ~RuntimePanic

\* FooBar beside Foo.Bar: both are named foo-bar, and the second
\* registration panics
C25_FooBarBesideFooDotBarPanics ==
    /\ Done /\ ReturnError /\ Accepted /\ Len(WalkLeaves) = 2
    /\ WalkLeaves[1].path = <<<<"F","o","o","B","a","r">>>> /\ WalkLeaves[2].path = <<<<"F","o","o">>, <<"B","a","r">>>>
    /\ NameAt(1) = <<"f","o","o","-","b","a","r">> /\ NameAt(2) = <<"f","o","o","-","b","a","r">>
    /\ Len(formal) = 1
    /\ RuntimePanic /\ end.err.msg = <<"t","e","s","t"," ","f","l","a","g"," ","r","e","d","e","f","i","n","e","d",":"," ","f","o","o","-","b","a","r">>

\* what holds of C25: an accepted record makes the call panic only when two
\* of its leaves have the same flag name
C25_PanicOnlyOnRepeatedName ==
    (Done /\ Accepted /\ RuntimePanic) =>
        \E i, j \in 1..Len(WalkLeaves) : i # j /\ NameAt(i) = NameAt(j)

(***************************************************************************)
(* Get on the URL and Time adapters                                        *)
(***************************************************************************)
\* the receiver holds no URL, or no time: its embedded pointer is nil
Unset(p) ==
    \/ p.type = "act.URL" /\ ~p.val.URL.set
    \/ p.type = "act.Time" /\ ~p.val.Time.set

\* C26: Get on a URL or Time adapter returns the underlying value and never
\* fails, for every instance reached through a pointer that is not nil: an
\* instance never Set, or whose Sets all failed, returns without a panic
C26_GetNeverFails ==
    (ret.op = "Get" /\ recv.type \in {"act.URL", "act.Time"} /\ ~recv.isNil) =>
        /\ ret.panic = <<>>
        /\ ~Unset(recv) => ret.out = (IF recv.type = "act.URL" THEN recv.val.URL ELSE recv.val.Time)

\* Get as the first call on a zero URL panics
C26_GetOnZeroURLPanics ==
    /\ ret.op = "Get" /\ ret.n = 1
    /\ recv = [type |-> "act.URL", isNil |-> FALSE, val |-> ZeroURL]
    /\ ret.panic = nilDereference

\* a Time whose only Set failed: Get on it panics
C26_GetAfterOnlySetFailedPanics ==
    /\ ret.op = "Set" /\ ret.n = 1 /\ ret.err # nil
    /\ recv = [type |-> "act.Time", isNil |-> FALSE, val |-> ZeroTime]
    /\ Get(recv).panic = nilDereference

\* a URL field the binder bound from an empty baseline: Get on it panics
C26_GetOnFieldBoundFromEmptyPanics ==
    /\ Done /\ end.kind = "return" /\ end.err = nil /\ Len(WalkLeaves) = 1
    /\ WalkLeaves[1].sf.Type = "act.URL" /\ WalkLeaves[1].sf.Tag.def = <<>> /\ ~EnvOf(WalkLeaves[1]).ok
    /\ Registered(WalkLeaves[1]) /\ trace.actual = <<>>
    /\ Get([type |-> "act.URL", isNil |-> FALSE, val |-> mem[WalkLeaves[1].path]]).panic = nilDereference

\* what holds of C26: once the receiver holds a value, Get returns it
C26_GetReturnsValueOnceSet ==
    (ret.op = "Get" /\ recv.type \in {"act.URL", "act.Time"} /\ ~recv.isNil /\ ~Unset(recv)) =>
        /\ ret.panic = <<>>
        /\ ret.out = (IF recv.type = "act.URL" THEN recv.val.URL ELSE recv.val.Time)

(***************************************************************************)
(* An environment variable that is set to the empty text                   *)
(***************************************************************************)
\* the zero or empty value of a supported type
EmptyValue(type) ==
    CASE type = "bool" -> FALSE
      [] type = "string" -> <<>>
      [] type \in {"uint", "uint64", "int", "int64"} -> [neg |-> FALSE, mag |-> <<"0">>]
      [] type = "float64" -> [neg |-> FALSE, int |-> <<"0">>, frac |-> <<>>]
      [] type = "time.Duration" -> 0
      [] type \in {"act.StringSlice", "act.IntSlice"} -> <<>>
      [] type = "act.URL" -> [URL |-> [set |-> FALSE]]
      [] type = "act.Time" -> [Time |-> [set |-> FALSE]]

FoundEmpty(l) == EnvOf(l) = [val |-> <<>>, ok |-> TRUE]

\* the walk gets to leaf i: every leaf before it converted and was
\* registered under a name of its own
GetsTo(i) ==
    /\ Reaches(i)
    /\ \A j, k \in 1..(i - 1) : j # k => NameAt(j) # NameAt(k)

\* the error names the leaf as the walk does for a baseline that failed
WalkErrorOf(err, l) ==
    \/ HasPrefix(err.msg, l.sf.Name \o <<" ","e","n","v",":"," ">>)
    \/ HasPrefix(err.msg, l.sf.Name \o <<" ","d","e","f",":"," ">>)

\* C27: a variable found in the environment with the empty text takes
\* precedence over def: with no help token in argv, the walk raises no error
\* for the leaf, whatever its supported type and its def are, and gives it
\* the zero or empty value of its type, which is the default its flag is
\* registered with and, with no flag for it in argv, the value it holds
\* after the call; with an empty argv Parse raises no error at all
C27_EmptyEnvOverDef ==
    (Done /\ ~HelpInArgv) =>
        \A i \in 1..Len(WalkLeaves) :
            (GetsTo(i) /\ Supported(WalkLeaves[i]) /\ FoundEmpty(WalkLeaves[i])) =>
                /\ trace.raised = nil \/ ~WalkErrorOf(trace.raised, WalkLeaves[i])
                /\ (\A j \in 1..(i - 1) : NameAt(j) # NameAt(i)) =>
                      /\ Len(formal) >= i /\ formal[i].Path = WalkLeaves[i].path
                      /\ formal[i].DefValue =
                            ValueString(WalkLeaves[i].sf.Type, EmptyValue(WalkLeaves[i].sf.Type))
                /\ ~FlagInArgv(WalkLeaves[i]) =>
                      mem[WalkLeaves[i].path] = EmptyValue(WalkLeaves[i].sf.Type)
                /\ (i = Len(WalkLeaves) /\ call.flags = <<>>) =>
                      /\ trace.raised = nil
                      /\ ~RuntimePanic => (end.kind = "return" /\ end.err = nil)

\* a Time field whose def is a timestamp, with the variable set to the
\* empty text: the field holds no time and Parse returns no error
C27_EmptyEnvOverTimeDefReached ==
    /\ Done /\ ~HelpInArgv /\ call.flags = <<>> /\ Len(WalkLeaves) = 1
    /\ WalkLeaves[1].sf.Type = "act.Time" /\ FoundEmpty(WalkLeaves[1])
    /\ WalkLeaves[1].sf.Tag.def = <<"2","0","0","2","-","1","0","-","0","2","T","1","5",":","0","0",":","0","0","Z">>
    /\ mem[WalkLeaves[1].path] = [Time |-> [set |-> FALSE]]
    /\ mem[WalkLeaves[1].path] # Converted("act.Time", WalkLeaves[1].sf.Tag.def)
    /\ end.kind = "return" /\ end.err = nil
====
